---- MODULE Spec2Model ----
(***************************************************************************)
(* Model of the reconciliation run of the property scraper                 *)
(* (src/app/scraper/scraper.py): main() reads the stored sheet, collects   *)
(* the fresh batch of the three crawls, merges both with                   *)
(* update_dataframe() and uploads the result.                              *)
(*                                                                         *)
(* A DataFrame is a sequence of rows; a row is a record with one field per *)
(* column.  The columns the merge reads or writes are modelled one by one  *)
(* (Code, Listed, the two dates, the four prices); Title stands for the    *)
(* remaining columns, which the merge only carries along with the row.     *)
(* A column that a frame does not have shows as NaN in every row, which is *)
(* what pd.concat makes of it.  The three crawls of a run (villas for      *)
(* sale, villas for rent, land) append to one batch in that order, which   *)
(* is the order pd.concat in main() gives their rows.                      *)
(***************************************************************************)
EXTENDS Integers, Sequences, FiniteSets, TLC

\* ---------------------------------------------------------------- bounds
\* longest fresh batch (rows of the three crawls together)
MaxBatch == 2
\* run times are the seconds 1..MaxTime of the wall clock
MaxTime == 2

\* ------------------------------------------------------------ value sets
\* the Codes the site shows
Codes == {"V100", "V200"}

\* pandas' missing value, for the date and price columns
NaN == -1
\* the text 'Unlisted' that main() writes into a missing cell, for the date
\* and price columns
FillUnlisted == -2

\* ------------------------------------------------- the fresh batch (scraper)
\* what scraper() can read off a detail page: title, the two prices, and
\* is_listed as returned by change_currency_n_get_soup ('Unlisted' when the
\* browser ended on another URL than the link).  Two renderings differ in
\* title and prices only, two in is_listed only.
Rendered ==
    {[title |-> "Villa A", price_usd |-> 33000, price |-> 500000000,
      is_listed |-> "Listed"],
     [title |-> "Villa B", price_usd |-> 30000, price |-> 450000000,
      is_listed |-> "Listed"],
     [title |-> "Villa A", price_usd |-> 33000, price |-> 500000000,
      is_listed |-> "Unlisted"]}

\* one row of the frame scraper() returns: the dict of gen_detail_dict; the
\* frame has no date and no original-price column
gen_detail_dict(title, price_usd, price, code, is_listed) ==
    [Title |-> title, Listed |-> is_listed,
     LastPriceUSD |-> price_usd, LastPriceIDR |-> price,
     Code |-> code,
     FirstScrapeDate |-> NaN, LastScrapeDate |-> NaN,
     OriginalPriceUSD |-> NaN, OriginalPriceIDR |-> NaN]

\* the rows a crawl can deliver
Details ==
    {gen_detail_dict(r.title, r.price_usd, r.price, c, r.is_listed) :
        r \in Rendered, c \in Codes}

\* ------------------------------------------------------ frame operations
CodesOf(df) == {df[i].Code : i \in DOMAIN df}

\* pd.concat([df, df_previous], ignore_index=True)
pd_concat(df, df_previous) == df \o df_previous

\* drop_duplicates(subset='Code'), keep='first'
drop_duplicates_last(df) ==
    LET keep == {i \in DOMAIN df :
                    \A j \in (i+1)..Len(df) : df[j].Code # df[i].Code}
    IN  [k \in 1..Cardinality(keep) |->
            df[CHOOSE i \in keep : Cardinality({j \in keep : j < i}) = k - 1]]

drop_duplicates(df) ==
    LET keep == {i \in DOMAIN df :
                    \A j \in 1..(i-1) : df[j].Code # df[i].Code}
    IN  [k \in 1..Cardinality(keep) |->
            df[CHOOSE i \in keep : Cardinality({j \in keep : j < i}) = k - 1]]

\* the row function applied to every row of the concatenated frame
fillna_swapped(row) ==
    [row EXCEPT
        !.FirstScrapeDate =
            IF @ = NaN THEN row.LastScrapeDate ELSE @,
        !.OriginalPriceUSD =
            IF @ = NaN THEN row.LastPriceIDR ELSE @,
        !.OriginalPriceIDR =
            IF @ = NaN THEN row.LastPriceUSD ELSE @]

fillna_from_same_row(row) ==
    [row EXCEPT
        !.FirstScrapeDate =
            IF @ = NaN THEN row.LastScrapeDate ELSE @,
        !.OriginalPriceUSD =
            IF @ = NaN THEN row.LastPriceUSD ELSE @,
        !.OriginalPriceIDR =
            IF @ = NaN THEN row.LastPriceIDR ELSE @]

\* df_concatenated.loc[~df_concatenated['Code'].isin(df['Code']),
\*                     'Listed'] = 'Unlisted'
mark_unlisted(df_concatenated, df) ==
    [i \in DOMAIN df_concatenated |->
        IF df_concatenated[i].Code \notin CodesOf(df)
        THEN [df_concatenated[i] EXCEPT !.Listed = "Unlisted"]
        ELSE df_concatenated[i]]

\* sort_values('First Scrape Date', ascending=False) and reset_index.
\* pandas sorts the reversed column and reverses the result, and numpy
\* sorts runs of up to 16 elements by insertion, so rows with equal dates
\* keep their order.
sort_values_ascending(df) ==
    LET pos(i) == Cardinality({j \in DOMAIN df :
                    \/ df[j].FirstScrapeDate < df[i].FirstScrapeDate
                    \/ /\ df[j].FirstScrapeDate = df[i].FirstScrapeDate
                       /\ j < i})
    IN  [k \in 1..Len(df) |-> df[CHOOSE i \in DOMAIN df : pos(i) = k - 1]]

sort_values(df) ==
    LET pos(i) == Cardinality({j \in DOMAIN df :
                    \/ df[j].FirstScrapeDate > df[i].FirstScrapeDate
                    \/ /\ df[j].FirstScrapeDate = df[i].FirstScrapeDate
                       /\ j < i})
    IN  [k \in 1..Len(df) |-> df[CHOOSE i \in DOMAIN df : pos(i) = k - 1]]

\* the first-time branch: four column assignments, no merge and no sort
first_time_scrape(df, t) ==
    [i \in DOMAIN df |->
        [df[i] EXCEPT !.FirstScrapeDate = t,
                      !.LastScrapeDate = t,
                      !.OriginalPriceUSD = df[i].LastPriceUSD,
                      !.OriginalPriceIDR = df[i].LastPriceIDR]]

\* the sheet's Last Scrape Date left as scraped
keep_last_scrape_date(df, t) == df

\* df['Last Scrape Date'] = now, in the subsequent-scrape branch
set_last_scrape_date(df, t) ==
    [i \in DOMAIN df |-> [df[i] EXCEPT !.LastScrapeDate = t]]

\* update_dataframe(df, df_previous) called at wall-clock second t.
\* A frame built from no dict has no column at all: df['Last Price (USD)']
\* (first-time branch) and df['Code'] (subsequent branch) raise KeyError.
update_dataframe(df, df_previous, t) ==
    IF df = <<>>
    THEN [raised |-> TRUE, df |-> <<>>]
    ELSE IF df_previous = <<>>
    THEN [raised |-> FALSE, df |-> first_time_scrape(df, t)]
    ELSE LET dated == set_last_scrape_date(df, t)
             df_concatenated == drop_duplicates(pd_concat(dated, df_previous))
             filled == [i \in DOMAIN df_concatenated |->
                           fillna_from_same_row(df_concatenated[i])]
         IN  [raised |-> FALSE,
              df |-> sort_values(mark_unlisted(filled, dated))]

\* df_new.fillna('Unlisted') in main
fillna(df) ==
    [i \in DOMAIN df |->
        [df[i] EXCEPT
            !.FirstScrapeDate = IF @ = NaN THEN FillUnlisted ELSE @,
            !.LastScrapeDate = IF @ = NaN THEN FillUnlisted ELSE @,
            !.OriginalPriceUSD = IF @ = NaN THEN FillUnlisted ELSE @,
            !.OriginalPriceIDR = IF @ = NaN THEN FillUnlisted ELSE @,
            !.LastPriceUSD = IF @ = NaN THEN FillUnlisted ELSE @,
            !.LastPriceIDR = IF @ = NaN THEN FillUnlisted ELSE @]]

\* ------------------------------------------------------- price normalizer
\* A text is a sequence of one-character strings.  The texts of the
\* '.regular-price' elements of a page are a sequence of texts.
NL == "\n"
Whitespace == {" ", NL}
Digits == {"0", "1", "2", "3", "4", "5", "6", "7", "8", "9"}

\* the two fixed payment periods and the fallback amount
OneTime == <<"o", "n", "e", " ", "t", "i", "m", "e">>
OnRequest == <<"o", "n", " ", "r", "e", "q", "u", "e", "s", "t">>
Zero == <<"0">>

Contains(s, c) == \E i \in DOMAIN s : s[i] = c

\* str.strip()
strip(s) ==
    LET solid == {i \in DOMAIN s : s[i] \notin Whitespace}
    IN  IF solid = {} THEN <<>>
        ELSE SubSeq(s, CHOOSE i \in solid : \A j \in solid : i <= j,
                       CHOOSE i \in solid : \A j \in solid : j <= i)

\* str.split(sep) for a one-character separator: always at least one part
split(s, sep) ==
    LET at == {i \in DOMAIN s : s[i] = sep}
        cut(k) == IF k = 0 THEN 0
                  ELSE IF k = Cardinality(at) + 1 THEN Len(s) + 1
                  ELSE CHOOSE i \in at : Cardinality({j \in at : j < i}) = k - 1
    IN  [k \in 1..(Cardinality(at) + 1) |-> SubSeq(s, cut(k-1) + 1, cut(k) - 1)]

\* ''.join(re.findall(r'[\d.]+', s)): the digits and the dots of s, in order
IsDigitOrDot(c) == c \in Digits \cup {"."}
findall_join(s) == SelectSeq(s, IsDigitOrDot)

\* int(s) for a text of digits and dots: ValueError on the empty text and on
\* any dot; the value is kept as its decimal numeral (no leading zero), since
\* amounts in rupiah exceed the checker's integers
int_raises(s) == s = <<>> \/ Contains(s, ".")

int_value(s) ==
    LET nonzero == {i \in DOMAIN s : s[i] # "0"}
    IN  IF nonzero = {} THEN Zero
        ELSE SubSeq(s, CHOOSE i \in nonzero : \A j \in nonzero : i <= j, Len(s))

\* what a get_price_parameters returns
returned(price, payment_period) ==
    [raised |-> FALSE, price |-> price, payment_period |-> payment_period]

\* the except branch of every get_price_parameters
on_exception_one_time == returned(Zero, OneTime)

on_exception == returned(Zero, OnRequest)

\* an exception that leaves the function
raise == [raised |-> TRUE, price |-> <<>>, payment_period |-> <<>>]

\* get_only_villas_features.get_price_parameters(prices): the whole body is
\* inside the try
villas_get_price_parameters(prices) ==
    IF prices = <<>> THEN on_exception
    ELSE LET price == findall_join(strip(prices[1]))
         IN  IF int_raises(price) THEN on_exception
             ELSE returned(int_value(price), OneTime)

\* get_renting_prices_periods.get_price_parameters(prices, 'villas'), after
\* raw_string is taken
renting_villas(raw_string) ==
    LET price == findall_join(split(raw_string, "/")[1])
        labelled == IF Contains(raw_string, NL)
                    THEN split(split(raw_string, NL)[2], "/")
                    ELSE split(raw_string, "/")
    IN  IF int_raises(price) \/ Len(labelled) < 2 THEN on_exception
        ELSE returned(int_value(price), strip(labelled[2]))

\* get_renting_prices_periods.get_price_parameters(prices, 'lands'), after
\* raw_string is taken
renting_lands(raw_string) ==
    LET price_string == IF Contains(raw_string, NL)
                        THEN split(raw_string, NL)[1]
                        ELSE raw_string
    IN  IF Contains(price_string, "/")
        THEN LET price == findall_join(split(price_string, "/")[1])
             IN  IF int_raises(price) THEN on_exception
                 ELSE returned(int_value(price), split(price_string, "/")[2])
        ELSE LET price == findall_join(price_string)
             IN  IF int_raises(price) THEN on_exception
                 ELSE returned(int_value(price), OneTime)

\* get_renting_prices_periods.get_price_parameters(prices, property_type):
\* raw_string is taken from the first element before the try, so an empty
\* list raises IndexError out of the function
first_raises(prices) == prices = <<>>

renting_get_price_parameters(prices, property_type) ==
    IF first_raises(prices) THEN raise
    ELSE LET raw_string == strip(strip(prices[1]))
         IN  IF property_type = "villas" THEN renting_villas(raw_string)
             ELSE renting_lands(raw_string)

\* the kinds of record scraper() builds, each with its normalizer:
\* "sale" through get_only_villas_features, "villas" (rent) and "lands"
\* through get_renting_prices_periods
RecordKinds == {"sale", "villas", "lands"}

get_price_parameters(prices, kind) ==
    IF kind = "sale" THEN villas_get_price_parameters(prices)
    ELSE renting_get_price_parameters(prices, kind)

\* both currencies of one record, USD first: what get_only_villas_features
\* (lines 325-326) and get_renting_prices_periods (lines 411-418) return; an
\* exception of either call leaves the function and nothing is returned
normalize_both(prices, prices_usd, kind) ==
    LET usd == get_price_parameters(prices_usd, kind)
        idr == get_price_parameters(prices, kind)
    IN  IF usd.raised \/ idr.raised
        THEN [raised |-> TRUE, price |-> <<>>, price_usd |-> <<>>,
              payment_period |-> <<>>, payment_period_usd |-> <<>>]
        ELSE [raised |-> FALSE, price |-> idr.price, price_usd |-> usd.price,
              payment_period |-> idr.payment_period,
              payment_period_usd |-> usd.payment_period]

\* ------------------------------------------------------ feature extraction
\* Python sequences are indexed from 0: seq[k] raises IndexError unless
\* k < len(seq)
has(seq, k) == k < Len(seq)
at(seq, k) == seq[k + 1]

\* the first position at which sub occurs in s, 0 if it does not occur
find(s, sub) ==
    LET here == {i \in 1..(Len(s) - Len(sub) + 1) :
                     SubSeq(s, i, i + Len(sub) - 1) = sub}
    IN  IF here = {} THEN 0 ELSE CHOOSE i \in here : \A j \in here : i <= j

\* sub in s
contains(s, sub) == find(s, sub) # 0

\* str.split(sep) for a separator of any length
RECURSIVE split_on(_, _)
split_on(s, sep) ==
    IF find(s, sep) = 0 THEN <<s>>
    ELSE <<SubSeq(s, 1, find(s, sep) - 1)>>
         \o split_on(SubSeq(s, find(s, sep) + Len(sep), Len(s)), sep)

\* ' '.join(parts)
RECURSIVE join_blank(_)
join_blank(parts) ==
    IF Len(parts) = 0 THEN <<>>
    ELSE IF Len(parts) = 1 THEN parts[1]
    ELSE parts[1] \o <<" ">> \o join_blank(Tail(parts))

\* the letters, for str.upper(), str.lower() and str.capitalize()
LowerCase ==
    <<"a", "b", "c", "d", "e", "f", "g", "h", "i", "j", "k", "l", "m", "n",
      "o", "p", "q", "r", "s", "t", "u", "v", "w", "x", "y", "z">>
UpperCase ==
    <<"A", "B", "C", "D", "E", "F", "G", "H", "I", "J", "K", "L", "M", "N",
      "O", "P", "Q", "R", "S", "T", "U", "V", "W", "X", "Y", "Z">>
upper_char(c) ==
    IF \E i \in DOMAIN LowerCase : LowerCase[i] = c
    THEN UpperCase[CHOOSE i \in DOMAIN LowerCase : LowerCase[i] = c] ELSE c
lower_char(c) ==
    IF \E i \in DOMAIN UpperCase : UpperCase[i] = c
    THEN LowerCase[CHOOSE i \in DOMAIN UpperCase : UpperCase[i] = c] ELSE c
upper(s) == [i \in DOMAIN s |-> upper_char(s[i])]
lower(s) == [i \in DOMAIN s |-> lower_char(s[i])]
capitalize(s) ==
    [i \in DOMAIN s |-> IF i = 1 THEN upper_char(s[i]) ELSE lower_char(s[i])]

\* a run of digits, single underscores allowed between them
is_digitpart(s) ==
    /\ s # <<>>
    /\ \A i \in DOMAIN s : s[i] \in Digits \cup {"_"}
    /\ s[1] \in Digits
    /\ s[Len(s)] \in Digits
    /\ \A i \in 1..(Len(s) - 1) : s[i] \in Digits \/ s[i + 1] \in Digits

\* int(s) of a text: blanks around it, a sign and underscores between the
\* digits are accepted; the value is the decimal numeral without leading
\* zeros, with '-' before it when it is negative
int_text_raises(s) ==
    LET t == strip(s)
    IN  ~is_digitpart(IF t # <<>> /\ t[1] \in {"+", "-"} THEN Tail(t) ELSE t)
int_text(s) ==
    LET t == strip(s)
        magnitude == int_value(SelectSeq(t, IsDigitOrDot))
    IN  IF t[1] = "-" /\ magnitude # Zero THEN <<"-">> \o magnitude
        ELSE magnitude

\* how float(s) reads a text: blanks around it, a sign, then one of the
\* words inf, infinity and nan in any case, or digits with at most one dot
\* (digits on at least one side of it) and an exponent after 'e' or 'E'
float_parse(s) ==
    LET unsigned(x) == IF x # <<>> /\ x[1] \in {"+", "-"} THEN Tail(x) ELSE x
        read(negative, body, parts, has_exp, signed_exp, exponent) ==
            [ok |-> \/ lower(body) \in {<<"i", "n", "f">>, <<"n", "a", "n">>,
                        <<"i", "n", "f", "i", "n", "i", "t", "y">>}
                    \/ /\ ~has_exp \/ is_digitpart(exponent)
                       /\ \/ Len(parts) = 1 /\ is_digitpart(parts[1])
                          \/ /\ Len(parts) = 2
                             /\ \/ /\ is_digitpart(parts[1])
                                   /\ \/ parts[2] = <<>>
                                      \/ is_digitpart(parts[2])
                                \/ parts[1] = <<>> /\ is_digitpart(parts[2]),
             negative |-> negative,
             special |-> lower(body) \in {<<"i", "n", "f">>, <<"n", "a", "n">>,
                             <<"i", "n", "f", "i", "n", "i", "t", "y">>},
             word |-> lower(body),
             whole |-> SelectSeq(parts[1], IsDigitOrDot),
             fraction |-> IF Len(parts) = 1 THEN <<>>
                          ELSE SelectSeq(parts[2], IsDigitOrDot),
             exp_negative |-> signed_exp # <<>> /\ signed_exp[1] = "-",
             exponent |-> int_value(SelectSeq(exponent, IsDigitOrDot))]
        \* the text before the first 'e' or 'E' and the text after it
        cut(negative, body, at_e) ==
            IF at_e = {}
            THEN read(negative, body, split(body, "."), FALSE, <<>>, <<>>)
            ELSE CHOOSE r \in
                     {read(negative, body, split(SubSeq(body, 1, e - 1), "."),
                           TRUE, x, unsigned(x)) :
                          <<e, x>> \in
                              {<<i, SubSeq(body, i + 1, Len(body))>> :
                                   i \in {j \in at_e : \A k \in at_e : j <= k}}} :
                     TRUE
    IN  CHOOSE r \in
            {cut(t # <<>> /\ t[1] = "-", body,
                 {i \in DOMAIN body : body[i] \in {"e", "E"}}) :
                 <<t, body>> \in {<<x, unsigned(x)>> : x \in {strip(s)}}} : TRUE

float_raises(s) == ~float_parse(s).ok

\* float(s): the double nearest to the decimal that the text writes, ties
\* going to the even significand; inf from 2^1024 - 2^970 on, 0 up to
\* 2^-1075. A finite value is mantissa * 2^exponent with an odd mantissa
\* (mantissa 0 and exponent 0 for zero). The decimal is doubled or halved
\* digit by digit until its whole part is a 53-bit significand, no further
\* than the exponent -1074 of the subnormal doubles; the bits that fall off
\* decide the rounding
float(s) ==
    LET DigitSeq == <<"0", "1", "2", "3", "4", "5", "6", "7", "8", "9">>
        num(c) == (CHOOSE n \in 1..10 : DigitSeq[n] = c) - 1
        zeros(n) == [i \in 1..n |-> 0]
        TwoTo52 == <<4, 5, 0, 3, 5, 9, 9, 6, 2, 7, 3, 7, 0, 4, 9, 6>>
        TwoTo53 == <<9, 0, 0, 7, 1, 9, 9, 2, 5, 4, 7, 4, 0, 9, 9, 2>>
        \* x < y, for numerals without leading zeros (the empty one is 0)
        lt(x, y) ==
            \/ Len(x) < Len(y)
            \/ /\ Len(x) = Len(y)
               /\ \E i \in DOMAIN x :
                      x[i] < y[i] /\ \A j \in 1..(i - 1) : x[j] = y[j]
        \* twice a decimal; the digits after the point keep their number
        double(x) ==
            LET twice(v) ==
                    LET body == [i \in DOMAIN v |->
                                    (2 * v[i] + IF i < Len(v) /\ v[i + 1] >= 5
                                                THEN 1 ELSE 0) % 10]
                    IN  IF v # <<>> /\ v[1] >= 5 THEN <<1>> \o body ELSE body
            IN  CHOOSE r \in {twice(v) : v \in {x}} : TRUE
        double16(x) ==
            double(double(double(double(double(double(double(double(
            double(double(double(double(double(double(double(double(x
            ))))))))))))))))
        \* half a whole number: h.v the half, h.r the bit that fell off
        \* last, h.st whether a bit that fell off before it was set
        halve(x) ==
            LET half(h) ==
                    LET body == [i \in DOMAIN h.v |->
                                    (h.v[i] + IF i > 1 /\ h.v[i - 1] % 2 = 1
                                              THEN 10 ELSE 0) \div 2]
                    IN  [v |-> IF body[1] = 0 THEN Tail(body) ELSE body,
                         r |-> h.v[Len(h.v)] % 2 = 1,
                         st |-> h.st \/ h.r]
            IN  CHOOSE r \in {half(h) : h \in {x}} : TRUE
        halve16(x) ==
            halve(halve(halve(halve(halve(halve(halve(halve(
            halve(halve(halve(halve(halve(halve(halve(halve(x
            ))))))))))))))))
        \* the whole part and the bits after it, of a decimal with f digits
        \* after the point
        whole_and_rest(v, f) ==
            [v |-> SubSeq(v, 1, Len(v) - f),
             r |-> f > 0 /\ v[Len(v) - f + 1] >= 5,
             st |-> \E i \in (Len(v) - f + 1)..Len(v) :
                        v[i] # 0 /\ (i > Len(v) - f + 1 \/ v[i] # 5)]
        RECURSIVE up(_, _, _)
        \* a value below 2^53 is doubled until nothing is left after the
        \* point, the whole part has 53 bits, or the exponent is -1074
        up(x, f, j) ==
            LET step(v, k) ==
                    IF \A i \in (Len(v) - f + 1)..Len(v) : v[i] = 0
                       \/ ~lt(SubSeq(v, 1, Len(v) - f), TwoTo52)
                       \/ k = 1074
                    THEN [h |-> whole_and_rest(v, f), e |-> 0 - k]
                    ELSE IF Len(v) - f <= 10 /\ k + 16 <= 1074
                    THEN up(double16(v), f, k + 16)
                    ELSE up(double(v), f, k + 1)
            IN  CHOOSE r \in {step(v, k) : v \in {x}, k \in {j}} : TRUE
        RECURSIVE down(_, _)
        \* a value from 2^53 on is halved until it is below 2^53
        down(x, e) ==
            LET step(h, k) ==
                    IF lt(h.v, TwoTo53) THEN [h |-> h, e |-> k]
                    ELSE IF Len(h.v) >= 22 THEN down(halve16(h), k + 16)
                    ELSE down(halve(h), k + 1)
            IN  CHOOSE r \in {step(h, k) : h \in {x}, k \in {e}} : TRUE
        RECURSIVE odd_part(_, _)
        \* m * 2^e with the factors 2 of m moved into the exponent
        odd_part(x, e) ==
            LET step(h, k) ==
                    IF h.v = <<>> THEN [v |-> <<>>, e |-> 0]
                    ELSE IF h.v[Len(h.v)] % 2 = 1 THEN [v |-> h.v, e |-> k]
                    ELSE odd_part(halve(h), k + 1)
            IN  CHOOSE r \in {step(h, k) : h \in {x}, k \in {e}} : TRUE
        \* m + 1
        inc(v) ==
            LET n == Len(v)
                t == CHOOSE k \in 0..n :
                         /\ \A i \in (n - k + 1)..n : v[i] = 9
                         /\ k = n \/ v[n - k] # 9
            IN  IF t = n THEN <<1>> \o zeros(n)
                ELSE [i \in 1..n |-> IF i < n - t THEN v[i]
                                     ELSE IF i = n - t THEN v[i] + 1 ELSE 0]
        \* round to the nearest, a tie to the even significand
        rounded(q) ==
            [v |-> IF q.h.r /\ (q.h.st \/ (q.h.v # <<>> /\ q.h.v[Len(q.h.v)] % 2 = 1))
                   THEN inc(q.h.v) ELSE q.h.v,
             r |-> FALSE, st |-> FALSE, e |-> q.e]
        special(kind, negative) ==
            [kind |-> kind, negative |-> negative, mantissa |-> Zero, exponent |-> 0]
        finite(negative, m) ==
            IF m.e > 971 \/ (m.e = 971 /\ m.v = TwoTo53) THEN special("inf", negative)
            ELSE CHOOSE r \in
                     {[kind |-> "finite", negative |-> negative,
                       mantissa |-> IF o.v = <<>> THEN Zero
                                    ELSE [i \in DOMAIN o.v |-> DigitSeq[o.v[i] + 1]],
                       exponent |-> o.e] : o \in {odd_part(m, m.e)}} : TRUE
        \* the decimal 0.d * 10^scale, d without zeros at its ends
        nearest(negative, d, scale) ==
            LET whole == IF scale <= 0 THEN <<>>
                         ELSE IF scale >= Len(d) THEN d \o zeros(scale - Len(d))
                         ELSE SubSeq(d, 1, scale)
                rest == IF scale <= 0 THEN zeros(0 - scale) \o d
                        ELSE IF scale >= Len(d) THEN <<>>
                        ELSE SubSeq(d, scale + 1, Len(d))
            IN  CHOOSE r \in
                    {finite(negative, m) :
                         m \in {rounded(q) :
                                    q \in {IF lt(whole, TwoTo53)
                                           THEN up(whole \o rest, Len(rest), 0)
                                           ELSE down(whole_and_rest(whole \o rest,
                                                                    Len(rest)), 0)}}} :
                    TRUE
        value(p) ==
            LET d == [i \in 1..9 |-> IF i <= 9 - Len(p.exponent) THEN 0
                                     ELSE num(p.exponent[i - (9 - Len(p.exponent))])]
                magnitude ==
                    IF Len(p.exponent) > 9 THEN 1000000000
                    ELSE d[1] * 100000000 + d[2] * 10000000 + d[3] * 1000000
                         + d[4] * 100000 + d[5] * 10000 + d[6] * 1000
                         + d[7] * 100 + d[8] * 10 + d[9]
                exp == IF p.exp_negative THEN 0 - magnitude ELSE magnitude
                all == p.whole \o p.fraction
                nonzero == {i \in DOMAIN all : all[i] # "0"}
                first == CHOOSE i \in nonzero : \A k \in nonzero : i <= k
                last == CHOOSE i \in nonzero : \A k \in nonzero : k <= i
                scale == Len(p.whole) + exp - (first - 1)
            IN  IF p.special
                THEN special(IF p.word = <<"n", "a", "n">> THEN "nan" ELSE "inf",
                             p.negative)
                ELSE IF nonzero = {} \/ scale < -323
                THEN [kind |-> "finite", negative |-> p.negative,
                      mantissa |-> Zero, exponent |-> 0]
                ELSE IF scale > 309 THEN special("inf", p.negative)
                ELSE nearest(p.negative,
                             [i \in 1..(last - first + 1) |-> num(all[first + i - 1])],
                             scale)
    IN  CHOOSE v \in {value(p) : p \in {float_parse(s)}} : TRUE

\* the words the furnished level is compared with
Word ==
    [yes |-> <<"y", "e", "s">>,
     furnish |-> <<"f", "u", "r", "n", "i", "s", "h">>,
     full_furnished |-> <<"f", "u", "l", "l", " ", "f", "u", "r", "n", "i",
         "s", "h", "e", "d">>,
     fully |-> <<"f", "u", "l", "l", "y">>,
     full_furnish |-> <<"f", "u", "l", "l", " ", "f", "u", "r", "n", "i",
         "s", "h">>,
     full |-> <<"f", "u", "l", "l">>,
     no_furnish |-> <<"n", "o", " ", "f", "u", "r", "n", "i", "s", "h">>,
     no |-> <<"n", "o">>,
     un_furnish |-> <<"u", "n", "-", "f", "u", "r", "n", "i", "s", "h">>,
     semi |-> <<"s", "e", "m", "i">>,
     semi_hyphen_furnished |-> <<"s", "e", "m", "i", "-", "f", "u", "r",
         "n", "i", "s", "h", "e", "d">>,
     semi_frunished |-> <<"s", "e", "m", "i", " ", "f", "r", "u", "n", "i",
         "s", "h", "e", "d">>,
     semi_furnish |-> <<"s", "e", "m", "i", " ", "f", "u", "r", "n", "i",
         "s", "h">>]

\* the values the furnished level is set to
Furnished == <<"F", "u", "r", "n", "i", "s", "h", "e", "d">>
FullyFurnished == <<"F", "u", "l", "l", "y", " ", "F", "u", "r", "n", "i", "s", "h",
      "e", "d">>
Unfurnished == <<"U", "n", "f", "u", "r", "n", "i", "s", "h", "e", "d">>
SemiFurnished == <<"S", "e", "m", "i", " ", "F", "u", "r", "n", "i", "s", "h", "e", "d">>
Unknown == <<"U", "n", "k", "n", "o", "w", "n">>

\* the four if statements on the furnished level, one after the other; a
\* text none of them matches is kept
is_any_of(furnished, words) == \E w \in words : upper(furnished) = upper(w)
furnished_level(raw) ==
    LET f1 == IF is_any_of(raw, {Word.yes, Word.furnish})
              THEN Furnished ELSE raw
        f2 == IF is_any_of(f1, {Word.full_furnished, Word.fully,
                                Word.full_furnish, Word.full})
              THEN FullyFurnished ELSE f1
        f3 == IF is_any_of(f2, {Word.no_furnish, Word.no, Word.un_furnish})
              THEN Unfurnished ELSE f2
    IN  IF is_any_of(f3, {Word.semi, Word.semi_hyphen_furnished,
                          Word.semi_frunished, Word.semi_furnish})
        THEN SemiFurnished ELSE f3

\* the words and separators of the extraction
Token ==
    [hold |-> <<"h", "o", "l", "d">>,
     leasehold |-> <<"l", "e", "a", "s", "e", "h", "o", "l", "d">>,
     colon_blank |-> <<":", " ">>,
     slash_blank |-> <<"/", " ">>,
     blank_y |-> <<" ", "y">>,
     pool_icon |-> <<NL, "p", "o", "o", "l", "P", "o", "o", "l">>,
     pool_yes |-> <<"y", "e", "s">>,
     pool_no |-> <<"n", "o">>]
YearBuilt ==
    <<"Y", "e", "a", "r", " ", "B", "u", "i", "l", "t">>

\* an exception that leaves an extraction function
raises == [raised |-> TRUE]

\* get_shared_features(soup), with colswidth20_item the stripped texts of
\* the '.colswidth20' elements: nothing is inside a try
get_shared_features(cols) ==
    IF ~has(cols, 1) \/ ~has(split(at(cols, 1), NL), 2) THEN raises
    ELSE LET lines == split(at(cols, 1), NL)
             type_sale == split(at(lines, 2), " ")[1] \o Token.hold
             places == split(at(cols, 0), NL)
             location == places[Len(places)]
             years == split_on(at(lines, 3), Token.slash_blank)
             hold_years == split_on(at(years, 1), Token.blank_y)[1]
         IN  IF type_sale = Token.leasehold
                /\ (\/ ~has(lines, 3)
                    \/ ~has(years, 1)
                    \/ int_text_raises(hold_years))
             THEN raises
             ELSE [raised |-> FALSE,
                   type_sale |-> type_sale,
                   location |-> IF Contains(location, "-") THEN Unknown
                                ELSE location,
                   hold_years |-> IF type_sale = Token.leasehold
                                  THEN int_text(hold_years) ELSE Zero]

\* get_rooms_and_pool(soup), with rooms the stripped texts inside the
\* '.available' elements and facilities the texts of the available icons:
\* nothing is inside a try
get_rooms_and_pool(rms, facilities) ==
    IF \/ ~has(rms, 5)
       \/ ~has(split(at(rms, 3), NL), 1)
       \/ int_text_raises(at(split(at(rms, 3), NL), 1))
       \/ int_text_raises(at(rms, 5))
    THEN raises
    ELSE [raised |-> FALSE,
          bedrooms |-> int_text(at(split(at(rms, 3), NL), 1)),
          bathrooms |-> int_text(at(rms, 5)),
          pool |-> IF \E i \in DOMAIN facilities :
                          facilities[i] = Token.pool_icon
                   THEN Token.pool_yes ELSE Token.pool_no]

\* the description items get_only_villas_features reads the building size
\* and the furnished level from, after the test on item 5
building_item(has_year) == IF has_year THEN 6 ELSE 5
furnished_item_fixed(has_year) == 6
furnished_item(has_year) == IF has_year THEN 7 ELSE 6

\* description_items[k].split('\n')[1].strip()
second_line_raises(items, k) ==
    ~has(items, k) \/ ~has(split(at(items, k), NL), 1)
second_line(items, k) == strip(at(split(at(items, k), NL), 1))

\* float(description_items[k].split('\n')[1].strip())
size_raises(items, k) ==
    second_line_raises(items, k) \/ float_raises(second_line(items, k))
size(items, k) == float(second_line(items, k))

\* the try around the furnished level: the text of the item, in lower case
\* in the branch with a year, then the four if statements; "Unknown" on any
\* exception
furnished_of(items, has_year) ==
    IF second_line_raises(items, furnished_item(has_year)) THEN Unknown
    ELSE LET text == second_line(items, furnished_item(has_year))
         IN  furnished_level(IF has_year THEN lower(text) ELSE text)

\* gen_detail_dict: the Furnished value of the record
capitalize_words(furnished) ==
    LET words == split(furnished, " ")
    IN  join_blank([i \in DOMAIN words |-> capitalize(words[i])])

\* get_only_villas_features(soup, description_items, prices, prices_usd)
\* without the prices: only the furnished level is inside a try
get_only_villas_features(items, rms, facilities) ==
    LET r == get_rooms_and_pool(rms, facilities)
        has_year == contains(at(items, 5), YearBuilt)
    IN  IF r.raised \/ ~has(items, 5) THEN raises
        ELSE IF \/ /\ has_year
                   /\ ~has(split_on(at(items, 5), Token.colon_blank), 1)
                \/ size_raises(items, 3)
                \/ size_raises(items, building_item(has_year))
        THEN raises
        ELSE [raised |-> FALSE,
              bedrooms |-> r.bedrooms,
              bathrooms |-> r.bathrooms,
              pool |-> r.pool,
              year_built |-> IF has_year
                             THEN at(split_on(at(items, 5),
                                              Token.colon_blank), 1)
                             ELSE Unknown,
              land_size |-> size(items, 3),
              building_size |-> size(items, building_item(has_year)),
              furnished |-> furnished_of(items, has_year)]

\* the extraction of a villa for sale in scraper()'s try block: an
\* exception of either function leaves the try block and no record is
\* built; otherwise gen_detail_dict builds the record
villa_record(cols, rms, facilities, items) ==
    LET shared == get_shared_features(cols)
        villa == get_only_villas_features(items, rms, facilities)
    IN  IF shared.raised \/ villa.raised THEN raises
        ELSE [raised |-> FALSE,
              TypeOfSale |-> shared.type_sale,
              LeaseYears |-> shared.hold_years,
              Location |-> shared.location,
              Bedrooms |-> villa.bedrooms,
              Bathrooms |-> villa.bathrooms,
              Pool |-> villa.pool,
              YearBuilt |-> villa.year_built,
              LandSize |-> villa.land_size,
              BuildingSize |-> villa.building_size,
              Furnished |-> capitalize_words(villa.furnished)]

\* ------------------------------------------------------------------ state
VARIABLES
    sheet,      \* the rows of the stored worksheet, below the header
    pc,         \* where main() is: "idle" between runs, "crawl" in a run
    df_old,     \* what the current or last run read from the sheet
    df_batch,   \* the rows the crawls of that run delivered, in order
    df_ret,     \* what update_dataframe returned in that run
    status,     \* "none", "running", "uploaded" or "failed"
    now         \* wall-clock second of the latest update_dataframe call

\* one call of the price normalizer for the two '.regular-price' selections
\* of a detail page: the kind of record, the element texts in each currency,
\* where the call stands and what it returned
VARIABLES pp_pc, kind, prices, prices_usd, pp_out

\* one call scraper(page, url, n_pages, flag) as main() makes it:
\*   scr_pc        where the call stands
\*   url           which of the substrings tested at lines 499, 516 and 538
\*                 the base url contains
\*   last_page     what get_last_page_number returned for the url
\*   n_pages       the argument main() passes
\*   website_page  the page loop's index
\*   requested     the ?page= numbers asked for so far, in order
\*   n_links, link the number of links of the current page and the position
\*                 of the link loop in them
\*   markup        what the current link's detail page holds
\*   retries       the retry counter of the current link
\*   attempts      passes through the try block for the latest link
\*   slept         seconds slept between the attempts of the latest link
\*   glitches      passing fetch failures so far
\*   details       the list of records
\*   passed, abandoned   the links logged PASS and logged as given up
VARIABLES scr_pc, url, last_page, n_pages, website_page, requested, n_links,
          link, markup, retries, attempts, slept, glitches, details, passed,
          abandoned

\* one run of main(), step by step: where it stands, and how often it has
\* called read_from_google, returned from a scraper() call, fetched a detail
\* page in each of the three crawls, called update_dataframe and called
\* upload_to_google
VARIABLES run_pc, reads, crawls, fetches, updates, writes

\* the step of main() at which the run in progress raised, if it did
VARIABLES failed_at

\* the loop of __main__ around main(): where the process stands, how many
\* times main() has been invoked and the seconds slept between invocations
VARIABLES proc_pc, invocations, backoff

\* the currency selection of one browser session, over the three scraper()
\* calls of a run:
\*   crawl          which scraper() call is running
\*   sess_pc        the fetch of the try block that comes next
\*   flag           the running call's flag variable
\*   idr_selected   whether the IDR entry has been clicked in this session
\*   usd_fetch      the idr_flag of the latest USD fetch, and whether IDR had
\*                  been selected before it
\*   n_fetches      fetches made so far
VARIABLES crawl, sess_pc, flag, idr_selected, usd_fetch, n_fetches

\* one extraction of a villa-for-sale record from a detail page: where it
\* stands, the texts of the '.colswidth20' elements, of the '.available'
\* paragraphs and of the description paragraphs, and what was extracted
VARIABLES vf_pc, colswidth20_item, rooms, facilities_available,
          description_items, vf_out

merge_vars == <<sheet, pc, df_old, df_batch, df_ret, status, now>>
price_vars == <<pp_pc, kind, prices, prices_usd, pp_out>>
scraper_vars ==
    <<scr_pc, url, last_page, n_pages, website_page, requested, n_links,
      link, markup, retries, attempts, slept, glitches, details, passed,
      abandoned>>
run_vars == <<run_pc, reads, crawls, fetches, updates, writes, failed_at>>
loop_vars == <<proc_pc, invocations, backoff>>
session_vars == <<crawl, sess_pc, flag, idr_selected, usd_fetch, n_fetches>>
villa_vars ==
    <<vf_pc, colswidth20_item, rooms, facilities_available, description_items,
      vf_out>>
rest_vars == <<loop_vars, session_vars, villa_vars>>

vars == <<merge_vars, price_vars, scraper_vars, run_vars, rest_vars>>

\* no result yet
no_result ==
    [raised |-> FALSE, price |-> <<>>, price_usd |-> <<>>,
     payment_period |-> <<>>, payment_period_usd |-> <<>>]

\* no price call is under way
PriceOff ==
    /\ pp_pc = "off"
    /\ kind = "sale"
    /\ prices = <<>>
    /\ prices_usd = <<>>
    /\ pp_out = no_result

\* no scraper() call is under way
ScraperOff ==
    /\ scr_pc = "off"
    /\ url = {}
    /\ last_page = 1
    /\ n_pages = 0
    /\ website_page = 0
    /\ requested = <<>>
    /\ n_links = 0
    /\ link = 0
    /\ markup = "none"
    /\ retries = 0
    /\ attempts = 0
    /\ slept = 0
    /\ glitches = 0
    /\ details = <<>>
    /\ passed = {}
    /\ abandoned = {}

\* no step-by-step run of main() is under way
RunOff ==
    /\ run_pc = "off"
    /\ reads = 0
    /\ crawls = 0
    /\ fetches = <<0, 0, 0>>
    /\ updates = 0
    /\ writes = 0
    /\ failed_at = "none"

\* the process loop is not followed
LoopOff ==
    /\ proc_pc = "off"
    /\ invocations = 0
    /\ backoff = 0

\* no browser session is followed
SessionOff ==
    /\ crawl = 0
    /\ sess_pc = "off"
    /\ flag = 0
    /\ idr_selected = FALSE
    /\ usd_fetch = [idr_flag |-> 0, after_idr |-> FALSE]
    /\ n_fetches = 0

\* no villa extraction is under way
VillaOff ==
    /\ vf_pc = "off"
    /\ colswidth20_item = <<>>
    /\ rooms = <<>>
    /\ facilities_available = <<>>
    /\ description_items = <<>>
    /\ vf_out = [raised |-> FALSE]

RestOff == LoopOff /\ SessionOff /\ VillaOff


\* read_from_google: the records below the header; an empty sheet gives an
\* empty frame
read_from_google(s) == s

\* before the first run: an empty sheet
MergeIdle ==
    /\ sheet = <<>>
    /\ pc = "idle"
    /\ df_old = <<>>
    /\ df_batch = <<>>
    /\ df_ret = <<>>
    /\ status = "none"
    /\ now = 1

Init ==
    /\ MergeIdle
    /\ PriceOff
    /\ ScraperOff
    /\ RunOff
    /\ RestOff

\* main() up to the first crawl: df_old = read_from_google(worksheet)
main_read ==
    /\ pc = "idle"
    /\ pc' = "crawl"
    /\ df_old' = read_from_google(sheet)
    /\ df_batch' = <<>>
    /\ df_ret' = <<>>
    /\ status' = "running"
    /\ UNCHANGED <<sheet, now>>
    /\ UNCHANGED <<price_vars, scraper_vars, run_vars, rest_vars>>

\* scraper(): details.append(detail) for one link of one of the crawls
scraper_append ==
    /\ pc = "crawl"
    /\ Len(df_batch) < MaxBatch
    /\ \E detail \in Details : df_batch' = Append(df_batch, detail)
    /\ UNCHANGED <<sheet, pc, df_old, df_ret, status, now>>
    /\ UNCHANGED <<price_vars, scraper_vars, run_vars, rest_vars>>

\* sheet.clear() leaves no row; after the header row alone get_all_records
\* still returns no record
cleared == <<>>

\* the rest of main(), once the land crawl has returned: pd.concat of the
\* three frames, update_dataframe, column reorder, fillna and
\* upload_to_google. An exception of the merge is caught and nothing is
\* uploaded. upload_to_google returns, or raises in sheet.clear() and the
\* sheet is as it was, or raises after it, in one of the two insert_rows
\* calls, and the sheet stays without data rows; main()'s except branch
\* logs the error
main_update ==
    /\ pc = "crawl"
    /\ pc' = "idle"
    /\ \E t \in now..MaxTime :
        LET r == update_dataframe(df_batch, df_old, t)
        IN  /\ now' = t
            /\ df_ret' = r.df
            /\ IF r.raised
               THEN /\ status' = "failed"
                    /\ sheet' = sheet
               ELSE \E upload \in {"returns", "raises_in_clear",
                                   "raises_after_clear"} :
                        /\ status' = IF upload = "returns" THEN "uploaded"
                                     ELSE "failed"
                        /\ sheet' = IF upload = "returns" THEN fillna(r.df)
                                    ELSE IF upload = "raises_in_clear" THEN sheet
                                    ELSE cleared
    /\ UNCHANGED <<df_old, df_batch>>
    /\ UNCHANGED <<price_vars, scraper_vars, run_vars, rest_vars>>

Next ==
    \/ main_read
    \/ scraper_append
    \/ main_update

Spec == Init /\ [][Next]_vars

\* ---------------------------------------------- runs with a code-less record
\* code = [code.text.strip() for code in codes][0] on a page whose '.code'
\* element is there but empty: the record's Code is the empty string
NoCode == ""

DetailsNoCode ==
    {gen_detail_dict(v.title, v.price_usd, v.price, NoCode, v.is_listed) :
        v \in Rendered}

\* scraper(): details.append(detail) for a link whose page has an empty
\* '.code' element
scraper_append_no_code ==
    /\ pc = "crawl"
    /\ Len(df_batch) < MaxBatch
    /\ \E detail \in DetailsNoCode : df_batch' = Append(df_batch, detail)
    /\ UNCHANGED <<sheet, pc, df_old, df_ret, status, now>>
    /\ UNCHANGED <<price_vars, scraper_vars, run_vars, rest_vars>>

NextNoCode ==
    \/ main_read
    \/ scraper_append
    \/ scraper_append_no_code
    \/ main_update

SpecNoCode == Init /\ [][NextNoCode]_vars

\* ------------------------------------------------- the price normalizer alone
\* bound on the length of the enumerated element texts
MaxText == 3

\* one character of each class the normalizers tell apart: a digit, the dot,
\* the slash, the line break, a blank and any other character
Alphabet == {"1", ".", "/", NL, " ", "x"}

Texts == UNION {[1..n -> Alphabet] : n \in 0..MaxText}

\* the text 'Rp 2.500.000.000'
RpDotted ==
    <<"R", "p", " ", "2", ".", "5", "0", "0", ".", "0", "0", "0", ".", "0",
      "0", "0">>

\* the text 'USD 33,000'
UsdComma ==
    <<"U", "S", "D", " ", "3", "3", ",", "0", "0", "0">>

\* the text 'Price on Request'
PriceOnRequest ==
    <<"P", "r", "i", "c", "e", " ", "o", "n", " ", "R", "e", "q", "u", "e",
      "s", "t">>

\* the text 'USD 1,500 / month'
UsdPerMonth ==
    <<"U", "S", "D", " ", "1", ",", "5", "0", "0", " ", "/", " ", "m", "o",
      "n", "t", "h">>

\* the text 'Rp 25.000.000' with '/ year' on the next line
RpPerYearBelow ==
    <<"R", "p", " ", "2", "5", ".", "0", "0", "0", ".", "0", "0", "0", NL,
      "/", " ", "y", "e", "a", "r">>

\* the text 'USD 1,500 / month' with 'negotiable' on the next line
UsdPerMonthThenLine ==
    UsdPerMonth \o <<NL, "n", "e", "g", "o", "t", "i", "a", "b", "l", "e">>

Examples ==
    {RpDotted, UsdComma, PriceOnRequest, UsdPerMonth, RpPerYearBelow,
     UsdPerMonthThenLine}

\* soup.select('.regular-price'): no element at all, or elements of which
\* the first carries the text
ElementLists == {<<>>} \cup {<<t>> : t \in Texts \cup Examples}
ExampleLists == {<<>>} \cup {<<t>> : t \in Examples}
                \cup {<<UsdComma, PriceOnRequest>>}

InitPrice ==
    /\ MergeIdle
    /\ ScraperOff
    /\ RunOff
    /\ RestOff
    /\ pp_pc = "called"
    /\ kind \in RecordKinds
    /\ \/ prices \in ElementLists /\ prices_usd \in ExampleLists
       \/ prices \in ExampleLists /\ prices_usd \in ElementLists
    /\ pp_out = no_result

\* get_only_villas_features / get_renting_prices_periods on the two
\* selections
normalize_prices ==
    /\ pp_pc = "called"
    /\ pp_pc' = "done"
    /\ pp_out' = normalize_both(prices, prices_usd, kind)
    /\ UNCHANGED <<kind, prices, prices_usd>>
    /\ UNCHANGED <<merge_vars, scraper_vars, run_vars, rest_vars>>

NextPrice == normalize_prices

SpecPrice == InitPrice /\ [][NextPrice]_vars

\* ------------------------------------------------------ one scraper() call
\* bounds: the last page number of a listing, the detail links of the
\* listing over all its pages, and the passing fetch failures of one call
MaxPage == 3
MaxLinks == 3
MaxGlitches == 1

\* max_retries = 20 and time.sleep(10)
max_retries == 20
RetryDelay == 10

\* the base urls: the three sections of the site, each holding one of the
\* substrings tested by scraper(), and a url that holds two of them
Urls ==
    {{"villas-for-sale"}, {"villas-for-rent"}, {"land"},
     {"villas-for-sale", "land"}}

\* what the detail page of a link holds: everything, nothing that can be
\* fetched, no '.code' element, or no '.regular-price' element
Markups == {"complete", "unreachable", "no_code", "no_price"}

\* soup.select('.regular-price') on such a page
select_regular_price(m) == IF m = "no_price" THEN <<>> ELSE <<UsdComma>>

\* main(): n_pages = num - 1 for the number get_last_page_number returned
n_pages_of(num) == num - 1

\* while retries <= max_retries
may_retry_once_more(r) == r <= max_retries + 1

may_retry(r) == r <= max_retries

\* the link loop after a link is given up: the next link
after_give_up_break(i, n) == n + 1

after_give_up(i, n) == i + 1

\* one pass through the try block for a link with markup m under base url u:
\* the kinds of record appended to details, in order, and whether the pass
\* raised.  The three url tests are separate ifs, each block ends in
\* details.append, and get_renting_prices_periods raises on an empty
\* selection (raw_string is taken before its try).
try_block(u, m) ==
    LET sel == select_regular_price(m)
        sale == IF "villas-for-sale" \in u THEN <<"sale">> ELSE <<>>
        rent == IF "villas-for-rent" \in u THEN <<"villas">> ELSE <<>>
        land == IF "land" \in u THEN <<"lands">> ELSE <<>>
    IN  IF m \in {"unreachable", "no_code"}
        THEN [raised |-> TRUE, appended |-> <<>>]
        ELSE IF rent # <<>> /\ first_raises(sel)
        THEN [raised |-> TRUE, appended |-> sale]
        ELSE IF land # <<>> /\ first_raises(sel)
        THEN [raised |-> TRUE, appended |-> sale \o rent]
        ELSE [raised |-> FALSE, appended |-> sale \o rent \o land]

\* a fetch that fails in passing: change_currency_n_get_soup raises
glitch == [raised |-> TRUE, appended |-> <<>>]

\* the link the loops stand at
this_link == <<website_page + 1, link>>

\* details.append(detail) for each kind appended
records(kinds) == [k \in DOMAIN kinds |-> [link |-> this_link, kind |-> kinds[k]]]

InitScraper ==
    /\ MergeIdle
    /\ PriceOff
    /\ RunOff
    /\ RestOff
    /\ scr_pc = "pages"
    /\ url \in Urls
    /\ last_page \in 1..MaxPage
    /\ n_pages = n_pages_of(last_page)
    /\ website_page = 0
    /\ requested = <<>>
    /\ n_links = 0
    /\ link = 0
    /\ markup = "none"
    /\ retries = 0
    /\ attempts = 0
    /\ slept = 0
    /\ glitches = 0
    /\ details = <<>>
    /\ passed = {}
    /\ abandoned = {}

\* for website_page in range(n_pages): property_links = obtain_links(...)
obtain_links ==
    /\ scr_pc = "pages"
    /\ website_page < n_pages
    /\ requested' = Append(requested, website_page + 1)
    /\ \E n \in 0..(MaxLinks - Cardinality(passed \cup abandoned)) :
           n_links' = n
    /\ link' = 1
    /\ scr_pc' = "links"
    /\ UNCHANGED <<url, last_page, n_pages, website_page, markup, retries,
                   attempts, slept, glitches, details, passed, abandoned>>
    /\ UNCHANGED <<merge_vars, price_vars, run_vars, rest_vars>>

\* obtain_links is outside the try: page.goto raising leaves scraper()
obtain_links_raises ==
    /\ scr_pc = "pages"
    /\ website_page < n_pages
    /\ requested' = Append(requested, website_page + 1)
    /\ scr_pc' = "raised"
    /\ UNCHANGED <<url, last_page, n_pages, website_page, n_links, link,
                   markup, retries, attempts, slept, glitches, details,
                   passed, abandoned>>
    /\ UNCHANGED <<merge_vars, price_vars, run_vars, rest_vars>>

\* for link in property_links: retries = 0
take_link ==
    /\ scr_pc = "links"
    /\ link <= n_links
    /\ \E m \in Markups : markup' = m
    /\ retries' = 0
    /\ attempts' = 0
    /\ slept' = 0
    /\ scr_pc' = "retry"
    /\ UNCHANGED <<url, last_page, n_pages, website_page, requested, n_links,
                   link, glitches, details, passed, abandoned>>
    /\ UNCHANGED <<merge_vars, price_vars, run_vars, rest_vars>>

\* the links of the page are used up: the next page
next_page ==
    /\ scr_pc = "links"
    /\ link > n_links
    /\ website_page' = website_page + 1
    /\ scr_pc' = "pages"
    /\ UNCHANGED <<url, last_page, n_pages, requested, n_links, link, markup,
                   retries, attempts, slept, glitches, details, passed,
                   abandoned>>
    /\ UNCHANGED <<merge_vars, price_vars, run_vars, rest_vars>>

\* one iteration of the while loop: the try block; PASS and break, or the
\* except branch with retries += 1 and the sleep
attempt ==
    /\ scr_pc = "retry"
    /\ may_retry(retries)
    /\ \E g \in IF glitches < MaxGlitches /\ markup # "unreachable"
                THEN BOOLEAN ELSE {FALSE} :
        LET a == IF g THEN glitch ELSE try_block(url, markup)
        IN  /\ glitches' = IF g THEN glitches + 1 ELSE glitches
            /\ attempts' = attempts + 1
            /\ details' = details \o records(a.appended)
            /\ IF a.raised
               THEN /\ retries' = retries + 1
                    /\ slept' = slept + RetryDelay
                    /\ UNCHANGED <<scr_pc, link, passed>>
               ELSE /\ passed' = passed \cup {this_link}
                    /\ link' = link + 1
                    /\ scr_pc' = "links"
                    /\ UNCHANGED <<retries, slept>>
    /\ UNCHANGED <<url, last_page, n_pages, website_page, requested, n_links,
                   markup, abandoned>>
    /\ UNCHANGED <<merge_vars, price_vars, run_vars, rest_vars>>

\* retries > max_retries: "Max retries reached!", the while loop ends and
\* the link loop goes on
give_up ==
    /\ scr_pc = "retry"
    /\ ~may_retry(retries)
    /\ abandoned' = abandoned \cup {this_link}
    /\ link' = after_give_up(link, n_links)
    /\ scr_pc' = "links"
    /\ UNCHANGED <<url, last_page, n_pages, website_page, requested, n_links,
                   markup, retries, attempts, slept, glitches, details,
                   passed>>
    /\ UNCHANGED <<merge_vars, price_vars, run_vars, rest_vars>>

\* return pd.DataFrame(details)
scraper_return ==
    /\ scr_pc = "pages"
    /\ website_page >= n_pages
    /\ scr_pc' = "returned"
    /\ UNCHANGED <<url, last_page, n_pages, website_page, requested, n_links,
                   link, markup, retries, attempts, slept, glitches, details,
                   passed, abandoned>>
    /\ UNCHANGED <<merge_vars, price_vars, run_vars, rest_vars>>

NextScraper ==
    \/ obtain_links
    \/ obtain_links_raises
    \/ take_link
    \/ next_page
    \/ attempt
    \/ give_up
    \/ scraper_return

SpecScraper == InitScraper /\ [][NextScraper]_vars

\* the call is one sequential program: while a step is possible it is taken
SpecScraperFair == SpecScraper /\ WF_vars(NextScraper)

\* --------------------------------------------------- one run of main(), by step
\* bound on the detail pages counted per crawl
MaxFetches == 2

\* the scraper() calls of main(), in order: villas for sale, villas for
\* rent, lands
NumCrawls == 3

\* the order of main(): get_last_page_number for the three listings, then
\* inside the try google_authentication, read_from_google, the three
\* scraper() calls, pd.concat with update_dataframe and the column steps,
\* upload_to_google
after_skipping_read(step) ==
    CASE step = "pages"  -> "auth"
      [] step = "auth"   -> "crawl"
      [] step = "read"   -> "crawl"
      [] step = "crawl"  -> "update"
      [] step = "update" -> "upload"
      [] step = "upload" -> "done"

after(step) ==
    CASE step = "pages"  -> "auth"
      [] step = "auth"   -> "read"
      [] step = "read"   -> "crawl"
      [] step = "crawl"  -> "update"
      [] step = "update" -> "upload"
      [] step = "upload" -> "done"

InitRun ==
    /\ MergeIdle
    /\ PriceOff
    /\ ScraperOff
    /\ run_pc = "pages"
    /\ reads = 0
    /\ crawls = 0
    /\ fetches = <<0, 0, 0>>
    /\ updates = 0
    /\ writes = 0
    /\ failed_at = "none"
    /\ RestOff

\* the three get_last_page_number calls, before the try: an exception
\* leaves main()
get_last_page_numbers ==
    /\ run_pc = "pages"
    /\ run_pc' \in {after("pages"), "escaped"}
    /\ UNCHANGED <<reads, crawls, fetches, updates, writes>>
    /\ failed_at' = IF run_pc' \in {"caught", "escaped"} THEN run_pc
                    ELSE failed_at
    /\ UNCHANGED <<merge_vars, price_vars, scraper_vars, rest_vars>>

\* worksheet = google_authentication(...); an exception is caught by
\* main()'s except
google_authentication ==
    /\ run_pc = "auth"
    /\ run_pc' \in {after("auth"), "caught"}
    /\ UNCHANGED <<reads, crawls, fetches, updates, writes>>
    /\ failed_at' = IF run_pc' \in {"caught", "escaped"} THEN run_pc
                    ELSE failed_at
    /\ UNCHANGED <<merge_vars, price_vars, scraper_vars, rest_vars>>

\* df_old = read_from_google(worksheet)
run_read ==
    /\ run_pc = "read"
    /\ reads' = reads + 1
    /\ run_pc' \in {after("read"), "caught"}
    /\ UNCHANGED <<crawls, fetches, updates, writes>>
    /\ failed_at' = IF run_pc' \in {"caught", "escaped"} THEN run_pc
                    ELSE failed_at
    /\ UNCHANGED <<merge_vars, price_vars, scraper_vars, rest_vars>>

\* inside the running scraper() call: change_currency_n_get_soup on a
\* detail link
run_fetch ==
    /\ run_pc = "crawl"
    /\ fetches[crawls + 1] < MaxFetches
    /\ fetches' = [fetches EXCEPT ![crawls + 1] = @ + 1]
    /\ UNCHANGED <<run_pc, reads, crawls, updates, writes>>
    /\ failed_at' = IF run_pc' \in {"caught", "escaped"} THEN run_pc
                    ELSE failed_at
    /\ UNCHANGED <<merge_vars, price_vars, scraper_vars, rest_vars>>

\* the running scraper() call returns its frame, or obtain_links raises
\* and main() catches it
run_crawl_ends ==
    /\ run_pc = "crawl"
    /\ \/ /\ crawls' = crawls + 1
          /\ run_pc' = IF crawls + 1 = NumCrawls THEN after("crawl") ELSE "crawl"
       \/ /\ crawls' = crawls
          /\ run_pc' = "caught"
    /\ UNCHANGED <<reads, fetches, updates, writes>>
    /\ failed_at' = IF run_pc' \in {"caught", "escaped"} THEN run_pc
                    ELSE failed_at
    /\ UNCHANGED <<merge_vars, price_vars, scraper_vars, rest_vars>>

\* pd.concat of the three frames, update_dataframe, the column reorder and
\* fillna; an exception (an empty batch) is caught
run_update ==
    /\ run_pc = "update"
    /\ updates' = updates + 1
    /\ run_pc' \in {after("update"), "caught"}
    /\ UNCHANGED <<reads, crawls, fetches, writes>>
    /\ failed_at' = IF run_pc' \in {"caught", "escaped"} THEN run_pc
                    ELSE failed_at
    /\ UNCHANGED <<merge_vars, price_vars, scraper_vars, rest_vars>>

\* upload_to_google(df_new, worksheet)
run_upload ==
    /\ run_pc = "upload"
    /\ writes' = writes + 1
    /\ run_pc' \in {after("upload"), "caught"}
    /\ UNCHANGED <<reads, crawls, fetches, updates>>
    /\ failed_at' = IF run_pc' \in {"caught", "escaped"} THEN run_pc
                    ELSE failed_at
    /\ UNCHANGED <<merge_vars, price_vars, scraper_vars, rest_vars>>

NextRun ==
    \/ get_last_page_numbers
    \/ google_authentication
    \/ run_read
    \/ run_fetch
    \/ run_crawl_ends
    \/ run_update
    \/ run_upload

SpecRun == InitRun /\ [][NextRun]_vars

\* ------------------------------------------------- the loop around main()
\* trials = 10 and time.sleep(20)
trials == 10
TrialDelay == 20

\* for trial in range(trials): another invocation is left after n of them
trials_remain_once_more(n) == n < trials + 1

trials_remain(n) == n < trials

InitProcess ==
    /\ MergeIdle
    /\ PriceOff
    /\ ScraperOff
    /\ run_pc = "pages"
    /\ reads = 0
    /\ crawls = 0
    /\ fetches = <<0, 0, 0>>
    /\ updates = 0
    /\ writes = 0
    /\ failed_at = "none"
    /\ proc_pc = "running"
    /\ invocations = 1
    /\ backoff = 0
    /\ SessionOff
    /\ VillaOff

\* how an invocation of main() can raise: an exception of
\* get_last_page_number, before the try, or of page.close() in the finally
\* clause, after the run was completed or its exception was caught and logged
main_raised == run_pc \in {"escaped", "done", "caught"}

\* main() returned without raising (page.close() returned): break
main_returns ==
    /\ proc_pc = "running"
    /\ run_pc \in {"done", "caught"}
    /\ proc_pc' = "exited"
    /\ UNCHANGED <<invocations, backoff>>
    /\ UNCHANGED <<merge_vars, price_vars, scraper_vars, run_vars,
                   session_vars, villa_vars>>

\* main() raised: the except branch logs, sleeps and continues with the
\* next trial, which invokes main() again
main_raises_retry ==
    /\ proc_pc = "running"
    /\ main_raised
    /\ trials_remain(invocations)
    /\ invocations' = invocations + 1
    /\ backoff' = backoff + TrialDelay
    /\ run_pc' = "pages"
    /\ reads' = 0
    /\ crawls' = 0
    /\ fetches' = <<0, 0, 0>>
    /\ updates' = 0
    /\ writes' = 0
    /\ failed_at' = "none"
    /\ UNCHANGED proc_pc
    /\ UNCHANGED <<merge_vars, price_vars, scraper_vars, session_vars,
                   villa_vars>>

\* main() raised in the last trial: the except branch sleeps and the loop
\* is over
main_raises_last ==
    /\ proc_pc = "running"
    /\ main_raised
    /\ ~trials_remain(invocations)
    /\ backoff' = backoff + TrialDelay
    /\ proc_pc' = "exited"
    /\ UNCHANGED invocations
    /\ UNCHANGED <<merge_vars, price_vars, scraper_vars, run_vars,
                   session_vars, villa_vars>>

NextProcess ==
    \/ NextRun
    \/ main_returns
    \/ main_raises_retry
    \/ main_raises_last

SpecProcess == InitProcess /\ [][NextProcess]_vars

\* the process is one sequential program: while a step is possible it is
\* taken
SpecProcessFair == SpecProcess /\ WF_vars(NextProcess)

\* ------------------------------------- the currency clicks of one session
\* bound on the calls of change_currency_n_get_soup in one session
MaxCalls == 6

\* the flag main() passes to the crawls: 0 to the villa-sale crawl, 1 to
\* the villa-rent and land crawls
flag_passed(c) == IF c = 1 THEN 0 ELSE 1

\* a new page: the villa-sale crawl begins; usd_fetch holds no fetch yet
InitSession ==
    /\ MergeIdle
    /\ PriceOff
    /\ ScraperOff
    /\ RunOff
    /\ LoopOff
    /\ VillaOff
    /\ crawl = 1
    /\ sess_pc = "usd"
    /\ flag = flag_passed(1)
    /\ idr_selected = FALSE
    /\ usd_fetch = [idr_flag |-> 0, after_idr |-> FALSE]
    /\ n_fetches = 0

\* change_currency_n_get_soup(page, link, 'USD', flag) in an attempt: it
\* returns, or one of its page calls raises and the attempt ends
fetch_usd ==
    /\ sess_pc = "usd"
    /\ n_fetches < MaxCalls
    /\ n_fetches' = n_fetches + 1
    /\ usd_fetch' = [idr_flag |-> flag, after_idr |-> idr_selected]
    /\ \E returns \in BOOLEAN :
           sess_pc' = IF returns THEN "idr" ELSE "usd"
    /\ UNCHANGED <<crawl, flag, idr_selected>>
    /\ UNCHANGED <<merge_vars, price_vars, scraper_vars, run_vars, loop_vars,
                   villa_vars>>

\* change_currency_n_get_soup(page, link, 'IDR', flag): a page call before
\* the IDR click raises, or page.inner_html raises after the click, or the
\* call returns and flag = 1 is executed; the rest of the attempt does not
\* touch the flag, and the next attempt or link begins with a USD fetch
fetch_idr ==
    /\ sess_pc = "idr"
    /\ n_fetches < MaxCalls
    /\ n_fetches' = n_fetches + 1
    /\ sess_pc' = "usd"
    /\ \E outcome \in {"raises_before_click", "raises_after_click", "returns"} :
           /\ idr_selected' = (idr_selected \/ outcome # "raises_before_click")
           /\ flag' = IF outcome = "returns" THEN 1 ELSE flag
    /\ UNCHANGED <<crawl, usd_fetch>>
    /\ UNCHANGED <<merge_vars, price_vars, scraper_vars, run_vars, loop_vars,
                   villa_vars>>

\* a scraper() call ends between two links. When it returns, main() makes
\* the next call on the same page, or closes the page after the land crawl.
\* When it raises (obtain_links is outside the try of scraper()), main()'s
\* except branch logs the error and the finally clause closes the page
\* without the remaining calls
next_crawl ==
    /\ sess_pc = "usd"
    /\ \E returns \in BOOLEAN :
           IF returns /\ crawl < NumCrawls
           THEN /\ crawl' = crawl + 1
                /\ flag' = flag_passed(crawl + 1)
                /\ sess_pc' = "usd"
           ELSE /\ sess_pc' = "closed"
                /\ UNCHANGED <<crawl, flag>>
    /\ UNCHANGED <<idr_selected, usd_fetch, n_fetches>>
    /\ UNCHANGED <<merge_vars, price_vars, scraper_vars, run_vars, loop_vars,
                   villa_vars>>

NextSession == fetch_usd \/ fetch_idr \/ next_crawl

SpecSession == InitSession /\ [][NextSession]_vars

\* ------------------------------------------- the extraction of one villa
\* bound on the length of the enumerated furnished texts
MaxRaw == 2

\* texts of the letters of 'no' in both cases and the blank
RawTexts ==
    UNION {[1..n -> {"n", "o", "N", "O", " "}] : n \in 0..MaxRaw}

\* furnished texts of a listing
Raw ==
    [yes |-> <<"Y", "e", "s">>,
     furnish_upper |-> <<"F", "U", "R", "N", "I", "S", "H">>,
     fully |-> <<"F", "u", "l", "l", "y">>,
     full_furnished |-> <<"F", "u", "l", "l", " ", "F", "u", "r", "n", "i",
         "s", "h", "e", "d">>,
     un_furnish |-> <<"U", "n", "-", "F", "u", "r", "n", "i", "s", "h">>,
     no_furnish |-> <<"N", "o", " ", "f", "u", "r", "n", "i", "s", "h">>,
     semi_upper |-> <<"S", "E", "M", "I">>,
     semi_hyphen_furnished |-> <<"S", "e", "m", "i", "-", "F", "u", "r",
         "n", "i", "s", "h", "e", "d">>,
     semi_frunished |-> <<"s", "e", "m", "i", " ", "f", "r", "u", "n", "i",
         "s", "h", "e", "d">>,
     furnished |-> <<"F", "u", "r", "n", "i", "s", "h", "e", "d">>,
     unfurnished |-> <<"u", "n", "f", "u", "r", "n", "i", "s", "h", "e",
         "d">>,
     partly_furnished |-> <<"p", "a", "r", "t", "l", "y", " ", "f", "u",
         "r", "n", "i", "s", "h", "e", "d">>,
     on_request |-> <<"O", "n", " ", "R", "e", "q", "u", "e", "s", "t">>]
FurnishedExamples == {Raw[k] : k \in DOMAIN Raw}

\* the paragraphs of the description rows: a label and, on the next line,
\* a value
Label ==
    [code |-> <<"C", "o", "d", "e">>,
     type |-> <<"T", "y", "p", "e">>,
     view |-> <<"V", "i", "e", "w">>,
     land_size |-> <<"L", "a", "n", "d", " ", "S", "i", "z", "e">>,
     floors |-> <<"F", "l", "o", "o", "r", "s">>,
     building_size |-> <<"B", "u", "i", "l", "d", "i", "n", "g", " ", "S",
         "i", "z", "e">>,
     furnished |-> <<"F", "u", "r", "n", "i", "s", "h", "e", "d">>,
     parking |-> <<"P", "a", "r", "k", "i", "n", "g">>]
Value ==
    [land_250 |-> <<"2", "5", "0">>,
     land_2_50 |-> <<"2", ".", "5", "0">>,
     building_120 |-> <<"1", "2", "0">>,
     year_2015 |-> <<"2", "0", "1", "5">>,
     not_a_number |-> <<"n", "/", "a">>,
     ten |-> <<"1", "0">>,
     eleven |-> <<"1", "1">>,
     twelve |-> <<"1", "2">>,
     fourteen |-> <<"1", "4">>,
     seventeen |-> <<"1", "7">>]

\* paragraph.text.strip() of a paragraph with the label on one line and the
\* value on the next
paragraph(label, value) == strip(label \o <<NL, " ">> \o value)

\* the description items of a villa page, with or without the year
description(with_year, land, raw) ==
    <<paragraph(Label.code, Value.ten), paragraph(Label.type, Value.eleven),
      paragraph(Label.view, Value.twelve), paragraph(Label.land_size, land),
      paragraph(Label.floors, Value.fourteen)>>
    \o IF with_year
       THEN <<YearBuilt \o Token.colon_blank \o Value.year_2015,
              paragraph(Label.building_size, Value.building_120),
              paragraph(Label.furnished, raw)>>
       ELSE <<paragraph(Label.building_size, Value.building_120),
              paragraph(Label.furnished, raw),
              paragraph(Label.parking, Value.seventeen)>>

\* a page that is not as the extraction expects it: the paragraph at k has
\* no value line, or a value that is no number, or the paragraphs stop
\* before k
Damages ==
    {[how |-> "none", k |-> 0]}
    \cup [how : {"no_value", "not_a_number", "cut"}, k : 0..7]
damaged(items, dmg) ==
    IF dmg.how = "none" THEN items
    ELSE IF dmg.how = "cut" THEN SubSeq(items, 1, dmg.k)
    ELSE [i \in DOMAIN items |->
            IF i # dmg.k + 1 THEN items[i]
            ELSE IF dmg.how = "no_value" THEN split(items[i], NL)[1]
            ELSE paragraph(split(items[i], NL)[1], Value.not_a_number)]

\* the texts of the '.colswidth20' elements
Cols ==
    [location |-> <<"L", "o", "c", "a", "t", "i", "o", "n", NL, "C", "a",
         "n", "g", "g", "u">>,
     location_dash |-> <<"L", "o", "c", "a", "t", "i", "o", "n", NL, "-">>,
     free |-> <<"O", "w", "n", "e", "r", "s", "h", "i", "p", NL, "V", "i",
         "l", "l", "a", NL, "f", "r", "e", "e", " ", "h", "o", "l", "d">>,
     lease |-> <<"O", "w", "n", "e", "r", "s", "h", "i", "p", NL, "V", "i",
         "l", "l", "a", NL, "l", "e", "a", "s", "e", " ", "h", "o", "l",
         "d", NL, "L", "e", "a", "s", "e", " ", "/", " ", "2", "5", " ",
         "y", "e", "a", "r", "s">>,
     lease_no_years |-> <<"O", "w", "n", "e", "r", "s", "h", "i", "p", NL,
         "V", "i", "l", "l", "a", NL, "l", "e", "a", "s", "e", " ", "h",
         "o", "l", "d", NL, "L", "e", "a", "s", "e", " ", "/", " ", "n",
         ".", "a", ".">>]
ColsLists ==
    {<<Cols.location, Cols.free>>, <<Cols.location, Cols.lease>>,
     <<Cols.location_dash, Cols.lease>>,
     <<Cols.location, Cols.lease_no_years>>, <<Cols.location>>}

\* the texts inside the '.available' elements
Room ==
    [title |-> <<"R", "o", "o", "m", "s">>,
     living |-> <<"L", "i", "v", "i", "n", "g">>,
     kitchen |-> <<"K", "i", "t", "c", "h", "e", "n">>,
     bedrooms_3 |-> <<"B", "e", "d", "r", "o", "o", "m", "s", NL, "3">>,
     bedrooms_studio |-> <<"B", "e", "d", "r", "o", "o", "m", "s", NL, "S",
         "t", "u", "d", "i", "o">>,
     bathrooms |-> <<"B", "a", "t", "h", "r", "o", "o", "m", "s">>,
     two |-> <<"2">>]
RoomsComplete ==
    <<Room.title, Room.living, Room.kitchen, Room.bedrooms_3, Room.bathrooms,
      Room.two>>
RoomsLists ==
    {RoomsComplete,
     <<Room.title, Room.living, Room.kitchen, Room.bedrooms_3>>,
     <<Room.title, Room.living, Room.kitchen, Room.bedrooms_studio,
       Room.bathrooms, Room.two>>}

\* the texts of the available facility icons
FacilitiesLists == {<<>>, <<Token.pool_icon>>}

\* a villa page has been fetched: a complete page with any furnished text,
\* or a page with some damage
InitVilla ==
    /\ MergeIdle
    /\ PriceOff
    /\ ScraperOff
    /\ RunOff
    /\ LoopOff
    /\ SessionOff
    /\ vf_pc = "called"
    /\ vf_out = [raised |-> FALSE]
    /\ facilities_available \in FacilitiesLists
    /\ \E with_year \in BOOLEAN :
        \/ /\ colswidth20_item \in
                  {<<Cols.location, Cols.free>>, <<Cols.location, Cols.lease>>}
           /\ rooms = RoomsComplete
           /\ \E land \in {Value.land_250, Value.land_2_50},
                 raw \in RawTexts \cup FurnishedExamples :
                  description_items = description(with_year, land, raw)
        \/ /\ colswidth20_item \in ColsLists
           /\ rooms \in RoomsLists
           /\ \E raw \in {Raw.yes, Raw.partly_furnished}, dmg \in Damages :
                  description_items =
                      damaged(description(with_year, Value.land_250, raw), dmg)

\* get_shared_features, get_only_villas_features and gen_detail_dict in the
\* try block of scraper() for a villa for sale
extract_villa ==
    /\ vf_pc = "called"
    /\ vf_pc' = "done"
    /\ vf_out' = villa_record(colswidth20_item, rooms, facilities_available,
                              description_items)
    /\ UNCHANGED <<colswidth20_item, rooms, facilities_available,
                   description_items>>
    /\ UNCHANGED <<merge_vars, price_vars, scraper_vars, run_vars, loop_vars,
                   session_vars>>

NextVilla == extract_villa

SpecVilla == InitVilla /\ [][NextVilla]_vars

\* ------------------------------------------------------ reading a finished run
\* the last run has returned from update_dataframe and uploaded: df_old,
\* df_batch, df_ret and now are that call's df_previous, df, result and time
Returned == pc = "idle" /\ status = "uploaded"

\* positions of the rows of a frame that carry Code c
RowsWith(df, c) == {i \in DOMAIN df : df[i].Code = c}

\* the first row of a frame that carries Code c
FirstOccurrence(df, c) ==
    df[CHOOSE i \in RowsWith(df, c) : \A j \in RowsWith(df, c) : i <= j]

\* the columns a fresh row brings, Last Scrape Date aside
SameFreshColumns(r, d) ==
    /\ r.Title = d.Title
    /\ r.LastPriceUSD = d.LastPriceUSD
    /\ r.LastPriceIDR = d.LastPriceIDR

\* two frames hold the same rows in the same order, Last Scrape Date aside
SameButLastScrapeDate(a, b) ==
    /\ Len(a) = Len(b)
    /\ \A i \in DOMAIN a :
          [a[i] EXCEPT !.LastScrapeDate = 0] = [b[i] EXCEPT !.LastScrapeDate = 0]

\* ------------------------------------------------------------------ claims

\* C1: provenance immutability: for every Code present in both the prior and
\* the new Dataset, First Scrape Date and both Original Prices of the new row
\* equal those of the prior row.
C1_ProvenanceImmutable ==
    Returned =>
        \A i \in DOMAIN df_old : \A j \in RowsWith(df_ret, df_old[i].Code) :
            /\ df_ret[j].FirstScrapeDate = df_old[i].FirstScrapeDate
            /\ df_ret[j].OriginalPriceUSD = df_old[i].OriginalPriceUSD
            /\ df_ret[j].OriginalPriceIDR = df_old[i].OriginalPriceIDR

\* C2: Code uniqueness: the Dataset returned by update_dataframe holds no two
\* rows with the same Code, whatever the prior Dataset and the batch.
C2_CodeUnique ==
    Returned =>
        \A i \in DOMAIN df_ret : \A j \in DOMAIN df_ret :
            i # j => df_ret[i].Code # df_ret[j].Code

\* a run of main() has ended, with or without an upload: df_old and
\* df_batch are what it read and scraped, sheet is the stored Dataset
AfterRun == pc = "idle" /\ status \in {"uploaded", "failed"}

\* C3: unlisted monotonicity: after a run, a Code of the prior Dataset that
\* is absent from the fresh batch (an empty batch included) is in the
\* stored Dataset, with Listed = 'Unlisted' and every other column as in
\* the prior Dataset.
C3_UnlistedCarried ==
    AfterRun =>
        \A i \in DOMAIN df_old :
            df_old[i].Code \notin CodesOf(df_batch) =>
                /\ RowsWith(sheet, df_old[i].Code) # {}
                /\ \A j \in RowsWith(sheet, df_old[i].Code) :
                      \E k \in RowsWith(df_old, df_old[i].Code) :
                          sheet[j] = [df_old[k] EXCEPT !.Listed = "Unlisted"]

\* C4: idempotent re-run: with D1 = update_dataframe(B, D0) the Dataset of
\* the last run, D2 = update_dataframe(B, D1) at any later or equal time
\* holds the same rows in the same order as D1, Last Scrape Date aside.
C4_IdempotentRerun ==
    Returned =>
        \A t2 \in now..MaxTime :
            LET d2 == update_dataframe(df_batch, df_ret, t2)
            IN  ~d2.raised /\ SameButLastScrapeDate(d2.df, df_ret)

\* C5: no step removes a Code from the stored Dataset, and a Code that was
\* unlisted and is in the fresh batch of a run is 'Listed' in that run's
\* Dataset.
C5_NeverDeletedRelisted ==
    [][ /\ CodesOf(sheet) \subseteq CodesOf(sheet')
        /\ (pc = "crawl" /\ status' = "uploaded") =>
              \A i \in DOMAIN df_old' :
                  (/\ df_old'[i].Listed = "Unlisted"
                   /\ df_old'[i].Code \in CodesOf(df_batch')) =>
                      /\ RowsWith(sheet', df_old'[i].Code) # {}
                      /\ \A j \in RowsWith(sheet', df_old'[i].Code) :
                            sheet'[j].Listed = "Listed" ]_vars

\* C6: in the Dataset written by a run a row is 'Unlisted' exactly when its
\* Code was absent from the batch while present in the prior Dataset, so
\* every row whose Code is in the batch is 'Listed'.
C6_ListedValue ==
    Returned =>
        \A j \in DOMAIN sheet :
            (sheet[j].Listed = "Unlisted") <=>
                (/\ sheet[j].Code \notin CodesOf(df_batch)
                 /\ sheet[j].Code \in CodesOf(df_old))

\* the fresh row that row j of the returned Dataset was built from: row j
\* of the batch on a first run, the first occurrence of the Code otherwise
FreshSource(j) ==
    IF df_old = <<>> THEN df_batch[j]
    ELSE FirstOccurrence(df_batch, df_ret[j].Code)

\* C7: a fresh row whose Code is not in the prior Dataset (empty or not)
\* gives a new row with First Scrape Date = Last Scrape Date = run time and
\* both Original Prices equal to the Last Prices of a fresh row of that
\* Code; an empty prior Dataset and a batch of one row give exactly one row.
C7_NewRecord ==
    Returned =>
        /\ \A i \in DOMAIN df_batch :
              df_batch[i].Code \notin CodesOf(df_old) =>
                  /\ RowsWith(df_ret, df_batch[i].Code) # {}
                  /\ \A j \in RowsWith(df_ret, df_batch[i].Code) :
                        /\ df_ret[j].FirstScrapeDate = now
                        /\ df_ret[j].LastScrapeDate = now
                        /\ df_ret[j].OriginalPriceUSD = df_ret[j].LastPriceUSD
                        /\ df_ret[j].OriginalPriceIDR = df_ret[j].LastPriceIDR
                        /\ SameFreshColumns(df_ret[j], FreshSource(j))
        /\ (df_old = <<>> /\ Len(df_batch) = 1) =>
              /\ Len(df_ret) = 1
              /\ df_ret[1].OriginalPriceIDR = df_batch[1].LastPriceIDR

\* C7 witness: a later run (the prior Dataset is not empty) brought a Code
\* that the prior Dataset did not hold.
C7_Witness ==
    /\ Returned
    /\ df_old # <<>>
    /\ \E i \in DOMAIN df_batch :
          /\ df_batch[i].Code \notin CodesOf(df_old)
          /\ RowsWith(df_ret, df_batch[i].Code) # {}

\* C8: for a Code of the batch that is in the prior Dataset, the new row has
\* Last Scrape Date = run time and the mutable columns of the fresh row
\* (the first occurrence of the Code in the batch), not of the prior row.
C8_FoundOverwritten ==
    Returned =>
        \A c \in CodesOf(df_batch) \cap CodesOf(df_old) :
            /\ RowsWith(df_ret, c) # {}
            /\ \A j \in RowsWith(df_ret, c) :
                  /\ df_ret[j].LastScrapeDate = now
                  /\ SameFreshColumns(df_ret[j], FirstOccurrence(df_batch, c))

\* C8 witness: a Code of the prior Dataset came back in the batch with
\* another title and other prices, at a later time.
C8_Witness ==
    /\ Returned
    /\ \E i \in DOMAIN df_old :
          /\ df_old[i].Code \in CodesOf(df_batch)
          /\ df_old[i].LastScrapeDate < now
          /\ LET d == FirstOccurrence(df_batch, df_old[i].Code)
             IN  /\ d.Title # df_old[i].Title
                 /\ d.LastPriceUSD # df_old[i].LastPriceUSD
                 /\ d.LastPriceIDR # df_old[i].LastPriceIDR

\* C9: tie-break on duplicate Codes: when a Code occurs more than once in
\* the batch, the new Dataset's rows of that Code carry the columns of its
\* first occurrence, on a first run as well as on later runs.
C9_FirstOccurrenceWins ==
    Returned =>
        \A c \in CodesOf(df_batch) :
            Cardinality(RowsWith(df_batch, c)) > 1 =>
                /\ RowsWith(df_ret, c) # {}
                /\ \A j \in RowsWith(df_ret, c) :
                      /\ SameFreshColumns(df_ret[j], FirstOccurrence(df_batch, c))
                      /\ df_ret[j].Listed = FirstOccurrence(df_batch, c).Listed

\* C10: every Dataset returned by update_dataframe, and so every Dataset
\* written, is ordered by First Scrape Date, newest first.
C10_SortedByFirstDesc ==
    Returned =>
        \A i \in 1..(Len(df_ret) - 1) :
            /\ df_ret[i].FirstScrapeDate >= df_ret[i+1].FirstScrapeDate
            /\ sheet[i].FirstScrapeDate >= sheet[i+1].FirstScrapeDate

\* C10 witness: the returned Dataset holds rows of different First Scrape
\* Dates.
C10_Witness ==
    /\ Returned
    /\ \E i \in 1..(Len(df_ret) - 1) :
          df_ret[i].FirstScrapeDate > df_ret[i+1].FirstScrapeDate

\* ------------------------------------------------ reading a normalizer call
PriceDone == pp_pc = "done"

HasDigit(t) == \E i \in DOMAIN t : t[i] \in Digits

IsDigitOnly(c) == c \in Digits

\* the number formed by the digits of a text, as a numeral
NumberOfDigits(t) == int_value(SelectSeq(t, IsDigitOnly))

\* a sale price as the listing shows it: a currency prefix of letters and
\* blanks, then digits grouped by '.' or ',' separators
IsCurrencyPrefix(t) == \A i \in DOMAIN t : t[i] \notin Digits \cup {".", ",", "/", NL}
IsGroupedDigits(t) ==
    /\ t # <<>>
    /\ t[1] \in Digits
    /\ t[Len(t)] \in Digits
    /\ \A i \in DOMAIN t : t[i] \in Digits \cup {".", ","}
    /\ \A i \in 1..(Len(t) - 1) : t[i] \in Digits \/ t[i+1] \in Digits
IsSalePriceText(t) ==
    \E k \in 0..Len(t) :
        /\ IsCurrencyPrefix(SubSeq(t, 1, k))
        /\ IsGroupedDigits(SubSeq(t, k + 1, Len(t)))

\* the periods the normalizer may give: the two fixed ones or a non-empty
\* label
ValidPair(price, payment_period) ==
    /\ price # <<>>
    /\ \A i \in DOMAIN price : price[i] \in Digits
    /\ payment_period # <<>>

\* C12: price normalization is total: for every input, an empty list of
\* price elements included, and every kind of record, the call returns an
\* (amount >= 0, period) pair for each currency and does not raise.
C12_NormalizerTotal ==
    PriceDone =>
        /\ ~pp_out.raised
        /\ ValidPair(pp_out.price, pp_out.payment_period)
        /\ ValidPair(pp_out.price_usd, pp_out.payment_period_usd)

\* C13: a sale price text made of a currency prefix and digits with
\* thousands separators normalizes to the number formed by its digits and
\* the period 'one time'; "Rp 2.500.000.000" gives 2500000000.
C13_SalePriceDigits ==
    (PriceDone /\ kind = "sale" /\ prices # <<>> /\ IsSalePriceText(prices[1])) =>
        /\ ~pp_out.raised
        /\ pp_out.price = NumberOfDigits(prices[1])
        /\ pp_out.payment_period = OneTime
        /\ prices[1] = RpDotted =>
               pp_out.price = <<"2", "5", "0", "0", "0", "0", "0", "0", "0", "0">>

\* C14: a price text without any digit normalizes to amount 0 and period
\* 'on request', for sale, rent and land records and in either currency.
C14_NoDigitOnRequest ==
    PriceDone =>
        /\ \A sel \in {prices, prices_usd} :
               (sel # <<>> /\ ~HasDigit(sel[1])) =>
                   get_price_parameters(sel, kind) = returned(Zero, OnRequest)
        /\ (~pp_out.raised /\ prices # <<>> /\ ~HasDigit(prices[1])) =>
               pp_out.price = Zero /\ pp_out.payment_period = OnRequest
        /\ (~pp_out.raised /\ prices_usd # <<>> /\ ~HasDigit(prices_usd[1])) =>
               pp_out.price_usd = Zero /\ pp_out.payment_period_usd = OnRequest

\* a call on digit-free texts has returned, for a rent record with
\* "Price on Request" in rupiah
C14_Witness ==
    /\ PriceDone
    /\ kind = "villas"
    /\ prices = <<PriceOnRequest>>
    /\ prices_usd # <<>>
    /\ ~HasDigit(prices_usd[1])
    /\ pp_out.price = Zero
    /\ pp_out.payment_period = OnRequest
    /\ pp_out.payment_period_usd = OnRequest

\* a rent price text '<amount>/<label>': one '/', digits before it, and a
\* label between it and the end of its line
FirstSlash(t) ==
    CHOOSE k \in DOMAIN t : t[k] = "/" /\ \A j \in 1..(k - 1) : t[j] # "/"
AmountPart(t) == SubSeq(t, 1, FirstSlash(t) - 1)
AfterSlash(t) == SubSeq(t, FirstSlash(t) + 1, Len(t))
LabelPart(t) == strip(split(AfterSlash(t), NL)[1])
IsRentPriceText(t) ==
    /\ Contains(t, "/")
    /\ ~Contains(AfterSlash(t), "/")
    /\ HasDigit(AmountPart(t))
    /\ LabelPart(t) # <<>>

\* C25: for a villa-rent price text '<amount>/<label>' the call returns the
\* number formed by the digits before the '/' as amount and the label as
\* period, with the label on the line of the amount or on the following
\* line, and also when other lines of text follow.
C25_RentalSplit ==
    (/\ PriceDone
     /\ kind = "villas"
     /\ ~pp_out.raised
     /\ prices # <<>>
     /\ IsRentPriceText(prices[1])) =>
        /\ pp_out.price = NumberOfDigits(AmountPart(prices[1]))
        /\ pp_out.payment_period = LabelPart(prices[1])

\* normalization of a selection on its own fails: no price element, or a
\* text that cannot be parsed
FailsAlone(sel) ==
    \/ sel = <<>>
    \/ get_price_parameters(sel, kind) \in {raise, on_exception}

\* C15: the currencies are normalized independently: when the USD price
\* fails (no element or unparseable text) the rupiah price still gets the
\* value it would have had alone, and the other way round, for every kind
\* of record.
C15_CurrenciesIndependent ==
    PriceDone =>
        /\ (FailsAlone(prices_usd) /\ prices # <<>>) =>
               /\ ~pp_out.raised
               /\ pp_out.price = get_price_parameters(prices, kind).price
               /\ pp_out.payment_period =
                      get_price_parameters(prices, kind).payment_period
        /\ (FailsAlone(prices) /\ prices_usd # <<>>) =>
               /\ ~pp_out.raised
               /\ pp_out.price_usd = get_price_parameters(prices_usd, kind).price
               /\ pp_out.payment_period_usd =
                      get_price_parameters(prices_usd, kind).payment_period

\* ---------------------------------------------------- reading a scraper call
\* the records details holds for a link
RecordsOf(l) == {k \in DOMAIN details : details[k].link = l}

\* link b comes after link a in the crawl
LaterLink(a, b) == b[1] > a[1] \/ (b[1] = a[1] /\ b[2] > a[2])

\* C16 as stated: at most N = max_retries = 20 fetch+extract attempts per
\* link.
C16_Original == attempts <= max_retries

\* C16: for every detail link scraper makes at most max_retries + 1 = 21
\* attempts (the first one and max_retries retries), sleeps the fixed delay
\* after every failed attempt, and a link whose budget is used up has had
\* exactly 21 failed attempts when it is abandoned.
C16_BoundedRetry ==
    /\ attempts <= max_retries + 1
    /\ retries <= attempts
    /\ slept = RetryDelay * retries
    /\ (scr_pc = "retry" /\ retries > max_retries) =>
           attempts = max_retries + 1 /\ retries = attempts

\* a link has been given up after its 21st attempt
C16_Witness ==
    /\ scr_pc = "links"
    /\ abandoned # {}
    /\ attempts = max_retries + 1
    /\ slept = RetryDelay * (max_retries + 1)

\* C17: when a link uses up its retry budget only that link is abandoned:
\* the link loop stands at the next link with every earlier link of the
\* page either passed or abandoned, every passed link has its record in
\* details, and the call eventually ends, whatever the links' failures.
C17_AbandonOnlyThatLink ==
    /\ <>(scr_pc \in {"returned", "raised"})
    /\ [](scr_pc \in {"links", "retry"} =>
              \A i \in 1..(link - 1) :
                  <<website_page + 1, i>> \in passed \cup abandoned)
    /\ [](\A l \in passed : RecordsOf(l) # {})
    /\ [](\A l \in passed \cup abandoned : l[1] \in 1..Len(requested))

\* the call has returned a record of a link that came after an abandoned
\* one
C17_Witness ==
    /\ scr_pc = "returned"
    /\ \E a \in abandoned : \E b \in passed :
           LaterLink(a, b) /\ RecordsOf(b) # {}

\* C18: details never holds a record of a link that has not passed: a
\* record is appended only in an attempt that succeeded as a whole, and an
\* abandoned link has no record.
C18_NoRecordFromFailedAttempt ==
    /\ \A k \in DOMAIN details : details[k].link \in passed
    /\ \A l \in abandoned : RecordsOf(l) = {}

\* C19: with P the page count get_last_page_number found, the crawl has
\* requested ?page=1, ..., ?page=P, in this order and each once, when it
\* returns.
C19_AllPagesInOrder ==
    scr_pc = "returned" => requested = [k \in 1..last_page |-> k]

\* --------------------------------------------------------- reading a run
\* main() is over: it returned normally, after its except branch, or by an
\* exception
RunOver == run_pc \in {"done", "caught", "escaped"}

SomeFetch == \E c \in 1..NumCrawls : fetches[c] > 0

\* the order the claim and its amendment share: the read comes before any
\* detail page is fetched, update_dataframe runs only after the three
\* crawls have returned, the upload only after update_dataframe
RunOrder ==
    /\ (SomeFetch \/ crawls > 0 \/ run_pc = "crawl") => reads = 1
    /\ updates > 0 => crawls = NumCrawls /\ reads = 1
    /\ writes > 0 => updates = 1
    /\ \A c \in 1..NumCrawls : fetches[c] > 0 => crawls >= c - 1

\* C20 as stated: in a run of main() the Dataset is read exactly once,
\* update_dataframe runs exactly once and the Dataset is written at most
\* once, in this order.
C20_Original ==
    /\ RunOrder
    /\ RunOver => reads = 1 /\ updates = 1 /\ writes <= 1

\* C20: in a run of main() the Dataset is read at most once, before any
\* detail page is fetched; update_dataframe runs at most once, only after
\* the three crawls have returned; the Dataset is written at most once,
\* after update_dataframe; and in a run that ends without an exception
\* each of the three happens exactly once.
C20_RunOrdering ==
    /\ RunOrder
    /\ reads <= 1
    /\ updates <= 1
    /\ writes <= 1
    /\ run_pc = "done" =>
           reads = 1 /\ updates = 1 /\ writes = 1 /\ crawls = NumCrawls

\* a run has ended without an exception, having fetched detail pages
C20_Witness ==
    /\ run_pc = "done"
    /\ SomeFetch
    /\ reads = 1
    /\ updates = 1
    /\ writes = 1

\* ------------------------------------------------ reading a code-less record
HasCode(d) == d.Code # NoCode

\* C11: a fresh record without a Code never appears in the new Dataset, and
\* the new Dataset is the one the same batch gives with such records
\* removed.
C11_CodelessDropped ==
    Returned =>
        /\ \A j \in DOMAIN df_ret : HasCode(df_ret[j])
        /\ LET r == update_dataframe(SelectSeq(df_batch, HasCode), df_old, now)
           IN  ~r.raised /\ r.df = df_ret

\* ------------------------------------------------------ timestamps of a run
\* the dates of every stored record are in order and not after the latest
\* run, and the records of the latest batch carry the latest run time
DatesInOrder ==
    /\ \A j \in DOMAIN sheet :
           /\ 1 <= sheet[j].FirstScrapeDate
           /\ sheet[j].FirstScrapeDate <= sheet[j].LastScrapeDate
           /\ sheet[j].LastScrapeDate <= now
    /\ Returned =>
           \A j \in DOMAIN df_ret :
               df_ret[j].Code \in CodesOf(df_batch) =>
                   df_ret[j].LastScrapeDate = now

\* C29 as stated: with non-decreasing run times every stored record has
\* First Scrape Date <= Last Scrape Date <= time of the latest run, and its
\* Last Scrape Date is the latest run time exactly when its Code was in the
\* latest batch.
C29_Original ==
    /\ DatesInOrder
    /\ Returned =>
           \A j \in DOMAIN df_ret :
               df_ret[j].LastScrapeDate = now =>
                   df_ret[j].Code \in CodesOf(df_batch)

\* C29: with non-decreasing run times every stored record has First Scrape
\* Date <= Last Scrape Date <= time of the latest run; a record whose Code
\* was in the latest batch has the latest run time as Last Scrape Date; and
\* when the latest run is later than every Last Scrape Date it read, only
\* the records of the latest batch carry its time.
C29_TimestampConsistency ==
    /\ DatesInOrder
    /\ (Returned /\ \A j \in DOMAIN df_old : df_old[j].LastScrapeDate < now) =>
           \A j \in DOMAIN df_ret :
               df_ret[j].LastScrapeDate = now =>
                   df_ret[j].Code \in CodesOf(df_batch)

\* a later run has returned a Dataset with a record of its batch and a
\* record it only carried over
C29_Witness ==
    /\ Returned
    /\ df_old # <<>>
    /\ \E j \in DOMAIN df_ret :
           df_ret[j].Code \in CodesOf(df_batch) /\ df_ret[j].LastScrapeDate = now
    /\ \E j \in DOMAIN df_ret :
           /\ df_ret[j].Code \notin CodesOf(df_batch)
           /\ df_ret[j].FirstScrapeDate <= df_ret[j].LastScrapeDate
           /\ df_ret[j].LastScrapeDate < now

\* ------------------------------------------------------- records per link
\* C30: every detail link has at most one record in the details of a
\* scraper call, whatever the number of attempts and whichever of the
\* substrings the base url contains.
C30_OneRecordPerLink ==
    \A k1, k2 \in DOMAIN details :
        details[k1].link = details[k2].link => k1 = k2

\* ------------------------------------------------------ reading the process
\* the steps of main() that talk to the sheet
SinkSteps == {"auth", "read", "upload"}

\* C21: when google_authentication, read_from_google or upload_to_google
\* raises, the run is aborted by an exception that reaches the loop of
\* __main__, which invokes main() again while trials remain: the process
\* ends after such a run only when the trials are used up.
C21_FatalSurfaced ==
    /\ (RunOver /\ failed_at \in SinkSteps) => run_pc = "escaped"
    /\ (proc_pc = "exited" /\ failed_at \in SinkSteps) => invocations = trials

\* C22: main() is invoked at most 10 times; a further invocation follows
\* only an invocation that raised, after the fixed sleep, and none follows
\* an invocation that returned; and the process ends, after an invocation
\* that returned or after the 10th that raised.
C22_LoopBounded ==
    /\ <>(proc_pc = "exited")
    /\ [](invocations <= trials)
    /\ [](proc_pc = "running" => backoff = TrialDelay * (invocations - 1))
    /\ [](proc_pc = "exited" =>
              \/ backoff = TrialDelay * (invocations - 1)
              \/ backoff = TrialDelay * invocations /\ invocations = trials)
    /\ [][invocations' # invocations =>
              /\ proc_pc = "running"
              /\ invocations' = invocations + 1
              /\ backoff' = backoff + TrialDelay]_vars
    /\ [][proc_pc = "exited" => proc_pc' = "exited"]_vars

\* the process has ended after the 10th invocation raised
C22_Witness ==
    /\ proc_pc = "exited"
    /\ run_pc = "escaped"
    /\ invocations = trials
    /\ backoff = TrialDelay * trials

\* ------------------------------------------------- the sheet after a run
\* C28: after any run of main(), whichever step failed, the stored Dataset
\* is either the one read at the start of the run or the complete
\* reconciled one; a Dataset that held records is never left empty, so a
\* later run does not take the first-time branch for it.
C28_WriteAtomic ==
    AfterRun =>
        /\ \/ sheet = df_old
           \/ status = "uploaded" /\ sheet = fillna(df_ret)
        /\ df_old # <<>> => sheet # <<>>

\* ------------------------------------------------- reading a session
\* C27: in one browser session a USD fetch uses idr_flag = 0 only while the
\* rupiah has never been selected, every USD fetch made after the first
\* selection of the rupiah uses idr_flag = 1, and the flag never goes back
\* from 1 to 0, over the retries of a link and over the three crawls.
C27_SessionScoped ==
    [][/\ usd_fetch'.after_idr => usd_fetch'.idr_flag = 1
       /\ flag' >= flag]_vars

\* ------------------------------------------------ reading an extraction
VillaDone == vf_pc = "done"

\* description item k, numbered from 0 as in the source
item(k) == description_items[k + 1]
HasValueLine(k) == k < Len(description_items) /\ Contains(item(k), NL)
ValueOf(k) == strip(split(item(k), NL)[2])

\* the fields of a page that cannot be extracted
NoBedrooms ==
    \/ Len(rooms) < 4
    \/ ~Contains(rooms[4], NL)
    \/ int_text_raises(split(rooms[4], NL)[2])
NoLandSize == ~HasValueLine(3) \/ float_raises(ValueOf(3))

\* C23: whichever single field of a page cannot be extracted (sale type,
\* lease years, location, bedrooms, bathrooms, pool, year built, land size,
\* building size, furnished), the record is still built, with the sentinel
\* of that field and the other fields extracted; the attempt does not end
\* in an exception, so the link is neither retried nor abandoned for it.
C23_FieldDegradation ==
    VillaDone =>
        /\ ~vf_out.raised
        /\ NoBedrooms => vf_out.Bedrooms = Zero
        /\ NoLandSize => vf_out.LandSize = float(Zero)

Buckets == {Unfurnished, SemiFurnished, Furnished, FullyFurnished}

\* C24: the Furnished value of every villa record, in either branch of the
\* year test, is one of the four buckets or Unknown.
C24_FurnishedBuckets ==
    (VillaDone /\ ~vf_out.raised) =>
        vf_out.Furnished \in Buckets \cup {Unknown}

\* the Furnished value read from description item k
FurnishedAt(k, lowered) ==
    IF ~HasValueLine(k) THEN Unknown
    ELSE capitalize_words(
             furnished_level(IF lowered THEN lower(ValueOf(k)) ELSE ValueOf(k)))

\* C26: when description item 5 contains 'Year Built' the year is read from
\* item 5, the building size from item 6 and the furnished level from item
\* 7; otherwise the year is Unknown, the building size is read from item 5
\* and the furnished level from item 6; the land size is read from item 3
\* in both branches.
C26_YearBuiltBranch ==
    (VillaDone /\ ~vf_out.raised) =>
        /\ vf_out.LandSize = float(ValueOf(3))
        /\ IF contains(item(5), YearBuilt)
           THEN /\ vf_out.YearBuilt = split_on(item(5), Token.colon_blank)[2]
                /\ vf_out.BuildingSize = float(ValueOf(6))
                /\ vf_out.Furnished = FurnishedAt(7, TRUE)
           ELSE /\ vf_out.YearBuilt = Unknown
                /\ vf_out.BuildingSize = float(ValueOf(5))
                /\ vf_out.Furnished = FurnishedAt(6, FALSE)

\* a page with the year has given a record with the year, the size of the
\* 'Building Size' paragraph and the level of the 'Furnished' paragraph
C26_Witness ==
    /\ VillaDone
    /\ ~vf_out.raised
    /\ description_items = description(TRUE, Value.land_2_50, Raw.fully)
    /\ vf_out.YearBuilt = Value.year_2015
    /\ vf_out.LandSize = [kind |-> "finite", negative |-> FALSE,
                           mantissa |-> <<"5">>, exponent |-> -1]
    /\ vf_out.BuildingSize = [kind |-> "finite", negative |-> FALSE,
                               mantissa |-> <<"1", "5">>, exponent |-> 3]
    /\ vf_out.Furnished = FullyFurnished

====
